---- MODULE Spec2Model ----
(***************************************************************************)
(* A model of the news pipeline of news.adayroi.jp-scraper: the dedup      *)
(* ledger and the scrape stage (pipeline.py, utils/log.py,                 *)
(* core/scraper.py), the grouping stage (core/gemini.py, utils/file.py),   *)
(* the merge stage (pipeline.py, utils/file.py), the image stage           *)
(* (core/image.py) and the publish / retention stages (utils/file.py).     *)
(*                                                                         *)
(* Every stage is sequential and talks to the next one through files, so   *)
(* each stage is checked under a specification of its own (SpecScrape,     *)
(* SpecGroup, SpecMerge, SpecImage, SpecPublish); the variables of the     *)
(* other stages stay at their initial values.                              *)
(*                                                                         *)
(* Strings are modelled as sequences of symbols (Markdown and HTML text as *)
(* sequences of tokens, URLs as sequences of URL pieces); str.replace and  *)
(* the regular expressions are computed on those sequences.                *)
(***************************************************************************)
EXTENDS Integers, Sequences, FiniteSets, TLC

VARIABLES
    \* ---- scrape stage (NewsPipeline.step_1_scrape_news_feed) ----
    ledger,              \* the processed-ids file: a sequence of lines
    run,                 \* number of scrape runs started; also the clock of log_id
    pc1,                 \* position inside step_1_scrape_news_feed
    processed_ids,       \* local: get_all_ids(...) of the current run
    news_feed_articles,  \* local: what scrape_news_feed returned
    new_articles,        \* local: the filtered list
    idx1,                \* local: loop position in new_articles
    raw_html_data,       \* local: the batch being collected
    step1_files,         \* raw_ids with a file <raw_id>.html in dir_step_1
    batches,             \* batch JSON files written to dir_step_2, in order
    result1,             \* what the last run returned / how it ended
    ledgerAtStart,       \* history: the ledger file when the current run started
    fetched,             \* history: every request fetch_and_save_article issued
    everRecorded,        \* history: [run, raw_id] for every id the ledger file held
                         \* right after a log_id of that run
    \* ---- publish and retention (copy_to_nextjs, cleanup_old_markdown_files) ----
    input_md,            \* Markdown files under input_folder: [dir, name] -> text
    input_files,         \* image files under input_folder (paths)
    content,             \* Markdown files under <nextjs>/content: [dir, name] -> text
    public,              \* files under <nextjs>/public (paths)
    pcP,                 \* "input", "copying", "published", "cleaning", "cleaned"
    todoP,               \* the files os.walk still has to hand to the loop body
    now,                 \* datetime.now() of the cleanup run, in ticks
    publicAfterCopy,     \* history: <nextjs>/public when copy_to_nextjs returned
    delete_calls,        \* history: the calls of delete_nextjs_markdown_file of this cleanup
    \* ---- image stage (download_and_replace_images, delete_remote_images) ----
    platform,            \* "posix" or "nt": how str(Path) spells a path
    img_in,              \* the Markdown file read from the translated stage
    img_content,         \* local: content of download_and_replace_images
    pcI,                 \* position in step 6 for the document
    matchesI,            \* local: the matches image_pattern.finditer(content) yields
    idxI,                \* local: the match the loop is at
    replacements,        \* local: the dict, as its items in insertion order
    disk,                \* files under output_dir: name -> "ok" or "partial"
    img_out,             \* the Markdown file written to the images stage
    img_pass1,           \* history: that file as download_and_replace_images wrote it
    requested,           \* history: the URLs requests.get was called with, in order
    \* ---- grouping stage (step_2_group_articles, group_article) ----
    client,              \* gemini.client is set (TRUE) or falsy (FALSE)
    raw_html,            \* the batch file step 1 returned: a list of articles
    pcG,                 \* position in step 2
    attempt,             \* local: attempt of the retry loop
    retry_delay,         \* local: seconds the next time.sleep waits
    sleeps,              \* history: the time.sleep calls made, in order
    response,            \* what the AI call ended with
    groups_json,         \* what group_article returned: None or a list of groups
    groups_file,         \* the article_groups file: absent or a list of groups
    result2,             \* what step_2_group_articles returned
    pipeline,            \* where run_full_pipeline went after step 2
    \* ---- merge stage (step_3_merge_articles, merge_html_file) ----
    data,                \* the groups file step 3 reads
    raw_dir,             \* data/1.raw_html: raw_id -> content of <raw_id>.html
    merged_dir,          \* data/3.merged: file name -> content
    pcM,                 \* position in step 3
    idxM,                \* local: the item of data the loop is at
    nMerged,             \* merged files written so far (their names are random)
    rawAtStart,          \* history: raw_dir when step 3 started
    mergedOf,            \* history: item of data -> name of the file merged for it
    \* ---- the ledger on its own (utils/log.py) ----
    log_file,            \* the ledger file: missing (None) or its lines
    log_clock,           \* datetime.now() of the next log_id
    recorded,            \* history: the entries log_id wrote, in order
    corrupted,           \* history: a line was written by something else
    all_ids,             \* what the last get_all_ids returned
    read_outcome,        \* "none", or how the last get_all_ids ended
    \* ---- the file name of an inline image (_download_and_convert_image) ----
    url_name,            \* basename of the URL path: lengths of its stem and extension
    pcF,                 \* "url", then "stored"
    stored_names,        \* the names of the files written for the URL
    \* ---- translation stage (translate_article_list) ----
    markdown_files,      \* os.listdir(input_folder): the Markdown files to translate
    idxT,                \* local: the file the loop is at
    pcT,                 \* position in step 5
    translated_dir,      \* data/5.translated: file stem -> what was written
    success_count,       \* local counter
    error_count,         \* local counter
    translated,          \* history: the files whose translation was written
    attemptT,            \* translate_article local: attempt
    retry_delayT,        \* translate_article local: retry_delay
    sleepsT,             \* history: the time.sleep calls of the current request
    resultT,             \* what translate_article returned for the current file
    \* ---- command line entry point (main) ----
    args,                \* the parsed command line
    config_valid,        \* environment: FEED_URL and GOOGLE_API_KEY are both set
    pcA,                 \* position in main / run_full_pipeline
    pipeline_skip_obsidian, \* the attribute main sets on the pipeline object
    executed,            \* history: the numbers of the steps that were entered
    logged,              \* the closing messages written to the log
    exit_status,         \* the status the process ended with
    failure              \* history: what stopped the run early, "" if nothing

scrapeVars == <<ledger, run, pc1, processed_ids, news_feed_articles, new_articles,
                idx1, raw_html_data, step1_files, batches, result1,
                ledgerAtStart, fetched, everRecorded>>

publishVars == <<input_md, input_files, content, public, pcP, todoP, now,
                 publicAfterCopy,
                 delete_calls>>

imageVars == <<platform, img_in, img_content, pcI, matchesI, idxI, replacements,
               disk, img_out, img_pass1, requested>>

groupVars == <<client, raw_html, pcG, attempt, retry_delay, sleeps, response,
               groups_json, groups_file, result2, pipeline>>

mergeVars == <<data, raw_dir, merged_dir, pcM, idxM, nMerged, rawAtStart, mergedOf>>

ledgerVars == <<log_file, log_clock, recorded, corrupted, all_ids, read_outcome>>

nameVars == <<url_name, pcF, stored_names>>

translateVars == <<markdown_files, idxT, pcT, translated_dir, success_count,
                   error_count, translated, attemptT, retry_delayT, sleepsT, resultT>>

mainVars == <<args, config_valid, pcA, pipeline_skip_obsidian, executed, logged,
              exit_status, failure>>

vars == <<scrapeVars, publishVars, imageVars, groupVars, mergeVars, ledgerVars, nameVars,
          translateVars, mainVars>>

\* what the actions of one stage leave alone
notScrape == <<publishVars, imageVars, groupVars, mergeVars, ledgerVars, nameVars,
    translateVars, mainVars>>
notPublish == <<scrapeVars, imageVars, groupVars, mergeVars, ledgerVars, nameVars,
    translateVars, mainVars>>
notImage == <<scrapeVars, publishVars, groupVars, mergeVars, ledgerVars, nameVars,
    translateVars, mainVars>>
notGroup == <<scrapeVars, publishVars, imageVars, mergeVars, ledgerVars, nameVars,
    translateVars, mainVars>>
notMerge == <<scrapeVars, publishVars, imageVars, groupVars, ledgerVars, nameVars,
    translateVars, mainVars>>
notLedger == <<scrapeVars, publishVars, imageVars, groupVars, mergeVars, nameVars,
    translateVars, mainVars>>
notName == <<scrapeVars, publishVars, imageVars, groupVars, mergeVars, ledgerVars,
    translateVars, mainVars>>
notTranslate == <<scrapeVars, publishVars, imageVars, groupVars, mergeVars, ledgerVars,
    nameVars, mainVars>>
notMain == <<scrapeVars, publishVars, imageVars, groupVars, mergeVars, ledgerVars,
    nameVars, translateVars>>

(***************************************************************************)
(* Bounds of the model.                                                    *)
(***************************************************************************)
MaxFeed == 2        \* articles in one scraped feed
MaxRuns == 2        \* scrape runs in one behaviour
MaxBody == 2        \* tokens in the body of a Markdown document
TicksPerDay == 2    \* resolution of the clock: ticks in one day
MaxImgBody == 2     \* image references in the document the image stage reads
MaxBatch == 2       \* articles in the batch the grouping stage reads
MaxGroups == 2      \* groups in the groups file the merge stage reads
MaxLines == 3       \* lines in the ledger file read on its own
MaxArticles == 3    \* Markdown files one translation run finds

(***************************************************************************)
(* Generic helpers.                                                        *)
(***************************************************************************)
SeqsUpTo(S, n) == UNION {[1..k -> S] : k \in 0..n}

EmptyFn == [x \in {} |-> 0]

\* the function f without the argument k
Without(f, k) == [x \in DOMAIN f \ {k} |-> f[x]]

\* the function f with f[k] = v
With(f, k, v) == [x \in DOMAIN f \cup {k} |-> IF x = k THEN v ELSE f[x]]

RECURSIVE SelectSeqBy(_, _, _)
\* Python's list comprehension [x for x in s if x.raw_id not in drop]
SelectSeqBy(s, drop, i) ==
    IF i > Len(s) THEN <<>>
    ELSE IF s[i].raw_id \in drop
         THEN SelectSeqBy(s, drop, i + 1)
         ELSE <<s[i]>> \o SelectSeqBy(s, drop, i + 1)

(***************************************************************************)
(* The stages at rest: each specification starts the other stages here.    *)
(***************************************************************************)
ScrapeIdle ==
    /\ ledger = <<>>
    /\ run = 0
    /\ pc1 = "idle"
    /\ processed_ids = <<>>
    /\ news_feed_articles = <<>>
    /\ new_articles = <<>>
    /\ idx1 = 1
    /\ raw_html_data = <<>>
    /\ step1_files = {}
    /\ batches = <<>>
    /\ result1 = "none"
    /\ ledgerAtStart = <<>>
    /\ fetched = {}
    /\ everRecorded = {}

PublishIdle ==
    /\ input_md = EmptyFn
    /\ input_files = {}
    /\ content = EmptyFn
    /\ public = {}
    /\ pcP = "input"
    /\ todoP = {}
    /\ now = 0
    /\ publicAfterCopy = {}
    /\ delete_calls = {}

ImageIdle ==
    /\ platform = "posix"
    /\ img_in = <<>>
    /\ img_content = <<>>
    /\ pcI = "idle"
    /\ matchesI = <<>>
    /\ idxI = 1
    /\ replacements = <<>>
    /\ disk = EmptyFn
    /\ img_out = <<>>
    /\ img_pass1 = <<>>
    /\ requested = <<>>

\* Python's None and a value that is not None
None == <<>>
Some(x) == <<x>>

GroupIdle ==
    /\ client = TRUE
    /\ raw_html = <<>>
    /\ pcG = "idle"
    /\ attempt = 0
    /\ retry_delay = 0
    /\ sleeps = <<>>
    /\ response = "none"
    /\ groups_json = None
    /\ groups_file = None
    /\ result2 = "none"
    /\ pipeline = "idle"

MainIdle ==
    /\ args = [step |-> "", skip_obsidian |-> FALSE, input |-> FALSE, output |-> FALSE]
    /\ config_valid = TRUE
    /\ pcA = "idle"
    /\ pipeline_skip_obsidian = None
    /\ executed = <<>>
    /\ logged = {}
    /\ exit_status = None
    /\ failure = ""

TranslateIdle ==
    /\ markdown_files = <<>>
    /\ idxT = 1
    /\ pcT = "idle"
    /\ translated_dir = EmptyFn
    /\ success_count = 0
    /\ error_count = 0
    /\ translated = {}
    /\ attemptT = 0
    /\ retry_delayT = 0
    /\ sleepsT = <<>>
    /\ resultT = "none"

NameIdle ==
    /\ url_name = [stem |-> 1, ext |-> 0]
    /\ pcF = "idle"
    /\ stored_names = {}

LedgerIdle ==
    /\ log_file = None
    /\ log_clock = 0
    /\ recorded = <<>>
    /\ corrupted = FALSE
    /\ all_ids = <<>>
    /\ read_outcome = "none"

MergeIdle ==
    /\ data = <<>>
    /\ raw_dir = EmptyFn
    /\ merged_dir = EmptyFn
    /\ pcM = "idle"
    /\ idxM = 1
    /\ nMerged = 0
    /\ rawAtStart = EmptyFn
    /\ mergedOf = EmptyFn

(***************************************************************************)
(* The dedup ledger: utils/log.py.                                         *)
(* A line is what json.dumps wrote: kind "entry" with its timestamp and    *)
(* id. Lines of any other kind do not parse as JSON.                       *)
(***************************************************************************)
RawIds == {"a", "b", "000"}     \* "000" is the scraper's "no article" raw_id

LedgerLine(ts, id) == [kind |-> "entry", timestamp |-> ts, id |-> id]

\* log_id appends one line and keeps the lines before it
log_id_overwrite(file, ts, id) == <<LedgerLine(ts, id)>>
log_id_at_front(file, ts, id) == <<LedgerLine(ts, id)>> \o file
log_id(file, ts, id) == Append(file, LedgerLine(ts, id))

RECURSIVE get_all_ids_from(_, _)
get_all_ids_from(file, i) ==
    IF i > Len(file) THEN <<>>
    ELSE IF file[i].kind = "entry"
         THEN <<file[i].id>> \o get_all_ids_from(file, i + 1)
         ELSE get_all_ids_from(file, i + 1)      \* json.JSONDecodeError: continue

\* a missing file and an empty file both give []
get_all_ids(file) == get_all_ids_from(file, 1)

\* a line that is not what log_id wrote: text that is not JSON, JSON that is
\* not an object (123, "x", [1]), or a JSON object without an id
CorruptKinds == {"text", "scalar", "noid"}
CorruptLine(kind) == [kind |-> kind, timestamp |-> 0, id |-> ""]

\* log.py:22-26: entry['id'] raises TypeError on JSON that is not an object
\* and KeyError on an object without an id; only JSONDecodeError is caught
get_all_ids_raises(file) == \E i \in DOMAIN file : file[i].kind \in {"scalar", "noid"}

Range(s) == {s[i] : i \in DOMAIN s}

\* the ids some line of the ledger file records
RecordedIds(file) == {file[i].id : i \in {j \in DOMAIN file : file[j].kind = "entry"}}

(***************************************************************************)
(* The scrape stage.                                                       *)
(***************************************************************************)
\* scrape_news_feed: one NewsFeed per link that has an image; id is the
\* position of the link, raw_id the last segment of its href, title empty
NewsFeed(i, rid) ==
    [id |-> i, raw_id |-> rid, url |-> rid, thumbnail |-> "thumb", title |-> ""]

Feeds == {[i \in DOMAIN s |-> NewsFeed(i, s[i])] : s \in SeqsUpTo(RawIds, MaxFeed)}

\* pipeline.py:115-118
FilterNewUnfiltered(articles, processed) == articles
FilterNew(articles, processed) == SelectSeqBy(articles, Range(processed), 1)

InitScrape == MainIdle /\ TranslateIdle /\ NameIdle /\ LedgerIdle /\ ScrapeIdle /\ PublishIdle /\ ImageIdle /\ GroupIdle /\ MergeIdle


\* step_1_scrape_news_feed up to "if not new_articles: return None"
StartScrape(feed) ==
    /\ pc1 = "idle"
    /\ run < MaxRuns
    /\ run' = run + 1
    /\ ledgerAtStart' = ledger
    /\ processed_ids' = get_all_ids(ledger)
    /\ news_feed_articles' = feed
    /\ new_articles' = FilterNew(feed, get_all_ids(ledger))
    /\ idx1' = 1
    /\ raw_html_data' = <<>>
    /\ IF new_articles' = <<>>
       THEN pc1' = "idle" /\ result1' = "None"
       ELSE pc1' = "log" /\ result1' = "running"
    /\ UNCHANGED <<ledger, step1_files, batches, fetched, everRecorded,
                   notScrape>>

\* scrape_news_feed raises ScrapingError: the run ends before the filter
FeedError ==
    /\ pc1 = "idle"
    /\ run < MaxRuns
    /\ run' = run + 1
    /\ ledgerAtStart' = ledger
    /\ processed_ids' = get_all_ids(ledger)
    /\ news_feed_articles' = <<>>
    /\ new_articles' = <<>>
    /\ idx1' = 1
    /\ raw_html_data' = <<>>
    /\ pc1' = "idle"
    /\ result1' = "raised"
    /\ UNCHANGED <<ledger, step1_files, batches, fetched, everRecorded,
                   notScrape>>

\* pipeline.py:135: log_id(processed_ids_file, article.raw_id)
LogId ==
    /\ pc1 = "log"
    /\ ledger' = log_id(ledger, run, new_articles[idx1].raw_id)
    /\ everRecorded' = everRecorded \cup
                          {[run |-> run, raw_id |-> x] : x \in RecordedIds(ledger')}
    /\ pc1' = "fetch"
    /\ UNCHANGED <<run, processed_ids, news_feed_articles, new_articles, idx1,
                   raw_html_data, step1_files, batches, result1, ledgerAtStart,
                   fetched,
                   notScrape>>

NextArticle == IF idx1 + 1 > Len(new_articles) THEN "save" ELSE "log"

\* fetch_and_save_article for the "000" raw_id: returns None, no request
FetchSentinel ==
    /\ pc1 = "fetch"
    /\ new_articles[idx1].raw_id = "000"
    /\ idx1' = idx1 + 1
    /\ pc1' = NextArticle
    /\ UNCHANGED <<ledger, run, processed_ids, news_feed_articles, new_articles,
                   raw_html_data, step1_files, batches, result1, ledgerAtStart,
                   fetched, everRecorded,
                   notScrape>>

\* fetch_and_save_article: the request succeeds and the file is written;
\* the title is the <h1> text, empty when the page has none
FetchSaved(title) ==
    /\ pc1 = "fetch"
    /\ new_articles[idx1].raw_id # "000"
    /\ fetched' = fetched \cup {[run |-> run, raw_id |-> new_articles[idx1].raw_id]}
    /\ step1_files' = step1_files \cup {new_articles[idx1].raw_id}
    /\ raw_html_data' =
           IF title = "" THEN raw_html_data     \* "if not title_content: continue"
           ELSE Append(raw_html_data, [new_articles[idx1] EXCEPT !.title = title])
    /\ idx1' = idx1 + 1
    /\ pc1' = NextArticle
    /\ UNCHANGED <<ledger, run, processed_ids, news_feed_articles, new_articles,
                   batches, result1, ledgerAtStart, everRecorded,
                   notScrape>>

\* fetch_and_save_article raises ScrapingError: step 1 propagates it
FetchError ==
    /\ pc1 = "fetch"
    /\ new_articles[idx1].raw_id # "000"
    /\ fetched' = fetched \cup {[run |-> run, raw_id |-> new_articles[idx1].raw_id]}
    /\ pc1' = "idle"
    /\ result1' = "raised"
    /\ UNCHANGED <<ledger, run, processed_ids, news_feed_articles, new_articles, idx1,
                   raw_html_data, step1_files, batches, ledgerAtStart, everRecorded,
                   notScrape>>

\* pipeline.py:146-160
SaveBatch ==
    /\ pc1 = "save"
    /\ pc1' = "idle"
    /\ IF raw_html_data = <<>>
       THEN result1' = "None" /\ UNCHANGED batches
       ELSE /\ batches' = Append(batches, [run |-> run, data |-> raw_html_data])
            /\ result1' = "file"
    /\ UNCHANGED <<ledger, run, processed_ids, news_feed_articles, new_articles, idx1,
                   raw_html_data, step1_files, ledgerAtStart, fetched, everRecorded,
                   notScrape>>

\* KeyboardInterrupt (main.py:157) between two statements of the loop
Interrupt ==
    /\ pc1 \in {"log", "fetch", "save"}
    /\ pc1' = "idle"
    /\ result1' = "interrupted"
    /\ UNCHANGED <<ledger, run, processed_ids, news_feed_articles, new_articles, idx1,
                   raw_html_data, step1_files, batches, ledgerAtStart, fetched,
                   everRecorded,
                   notScrape>>

NextScrape ==
    \/ \E feed \in Feeds : StartScrape(feed)
    \/ FeedError
    \/ LogId
    \/ FetchSentinel
    \/ \E title \in {"", "title"} : FetchSaved(title)
    \/ FetchError
    \/ SaveBatch
    \/ Interrupt

SpecScrape == InitScrape /\ [][NextScrape]_vars

FeedIds == {news_feed_articles[i].raw_id : i \in DOMAIN news_feed_articles}
BatchesOfRun == {batches[i] : i \in {j \in DOMAIN batches : batches[j].run = run}}

\* C1: a feed article whose raw_id the ledger already records when the run
\* starts is not among the new articles, is not fetched and is not written
\* to the batch JSON of the run; when every feed article is already
\* recorded the run returns None and writes no batch file.
C1_RecordedIdsExcluded ==
    LET old == RecordedIds(ledgerAtStart) IN
    /\ \A i \in DOMAIN new_articles : new_articles[i].raw_id \notin old
    /\ \A f \in fetched : f.run = run => f.raw_id \notin old
    /\ \A b \in BatchesOfRun : \A i \in DOMAIN b.data : b.data[i].raw_id \notin old
    /\ (run > 0 /\ news_feed_articles # <<>> /\ FeedIds \subseteq old)
          => (pc1 = "idle" /\ result1 = "None" /\ BatchesOfRun = {})

\* a finished run that wrote a batch although its feed held a recorded id
C1_Witness ==
    /\ pc1 = "idle"
    /\ result1 = "file"
    /\ FeedIds \cap RecordedIds(ledgerAtStart) # {}

\* C2: a fetch is issued for a raw_id only in the run that first recorded
\* it: the id is in the ledger before the request, and no earlier run had
\* recorded it (so a later run never fetches a recorded id again, whether
\* or not its fetch failed).
C2_NoRefetchOnceRecorded ==
    \A f \in fetched :
        /\ [run |-> f.run, raw_id |-> f.raw_id] \in everRecorded
        /\ \A r \in everRecorded : r.raw_id = f.raw_id => r.run >= f.run

\* a run ended by a fetch error, and a later run whose feed holds that id
\* again has finished without fetching it
C2_Witness ==
    /\ pc1 = "idle"
    /\ result1 = "None"
    /\ \E f \in fetched : /\ f.run < run
                           /\ f.raw_id \notin step1_files
                           /\ f.raw_id \in FeedIds

\* scrape runs that are started go on until they end: a step that can be
\* taken is taken
SpecScrapeLive == SpecScrape /\ WF_vars(NextScrape)

\* the raw ids the batch JSON files written so far list
ListedIds == UNION { {b.data[i].raw_id : i \in DOMAIN b.data} : b \in Range(batches) }

\* C27: across scrape runs, one of them aborted or not, every article whose
\* raw HTML was saved under the step 1 directory, in a run that is not the
\* last one looked at, is eventually listed in a batch JSON file that a
\* scrape run wrote.
C27_SavedArticleEventuallyListed ==
    \A id \in RawIds :
        []((id \in step1_files /\ run < MaxRuns) => <>(id \in ListedIds))

(***************************************************************************)
(* Markdown text.                                                          *)
(* A document is a sequence of tokens [k, url, n]:                         *)
(*   "delim"    a frontmatter delimiter line ---                           *)
(*   "thumb"    the frontmatter line  thumbnail: "<url>"                   *)
(*   "use"      the frontmatter line  use: true (n = 1) / use: false (0)   *)
(*   "created"  the frontmatter line  created_at: "<date time>", n = ticks *)
(*   "hr"       a line --- in the body (a horizontal rule)                 *)
(*   "usetext"  body text that reads  use: true                            *)
(*   "img"      ![alt](<url>)           "tag"   <img src="<url>">          *)
(*   "text"     any other text                                             *)
(* The title, slug and description lines are left out: sanitize_yaml_value *)
(* strips ':' from them, so none of the patterns below can match there.    *)
(***************************************************************************)
Tok(k, url, n) == [k |-> k, url |-> url, n |-> n]

\* gemini.py:441-450: the header translate_article_list writes
yaml_header(thumbnail, use, created_at) ==
    << Tok("delim", <<>>, 0), Tok("thumb", thumbnail, 0), Tok("use", <<>>, use),
       Tok("created", <<>>, created_at), Tok("delim", <<>>, 0) >>

\* the text holds the characters ---
HasDashes(t) == t.k \in {"delim", "hr"}
\* the text matches  use\s*:\s*true
HasUseTrue(t) == (t.k = "use" /\ t.n = 1) \/ t.k = "usetext"

\* file.py:104, 127: used_pattern.search(text) for  ---\s*.*?use\s*:\s*true.*?---
\* with re.DOTALL: dashes, later "use: true", later dashes, anywhere in the file
used_pattern(text) ==
    \E i, j, k \in DOMAIN text :
        /\ i < j /\ j < k
        /\ HasDashes(text[i]) /\ HasUseTrue(text[j]) /\ HasDashes(text[k])

RECURSIVE extract_image_urls_from(_, _, _)
\* image.py:242-255: the non-empty URLs of the image references, each once,
\* in the order of their first occurrence
extract_image_urls_from(text, i, acc) ==
    IF i > Len(text) THEN acc
    ELSE IF /\ text[i].k \in {"img", "tag"}
            /\ text[i].url # <<>>
            /\ text[i].url \notin Range(acc)
         THEN extract_image_urls_from(text, i + 1, Append(acc, text[i].url))
         ELSE extract_image_urls_from(text, i + 1, acc)

extract_image_urls(text) == extract_image_urls_from(text, 1, <<>>)

(***************************************************************************)
(* Publish selector and retention cleaner: utils/file.py.                  *)
(* A path is a sequence of segments, relative to input_folder,             *)
(* <nextjs>/content or <nextjs>/public. The directories of the destination *)
(* exist (shutil.copy2 does not create them).                              *)
(***************************************************************************)
RetentionDays == 30

DocDirs == {<<>>, <<"sub">>}
DocKeys == {[dir |-> d, name |-> "d1.md"] : d \in DocDirs}

\* file.replace('.md', '.webp')
Webp(name) == CASE name = "d1.md" -> "d1.webp" [] name = "d2.md" -> "d2.webp"

\* image URLs as the image stage leaves them: /images/i1.webp, images/i2.webp
LocalUrls == { <<"/", "images", "i1.webp">>, <<"images", "i2.webp">> }

\* "if image.startswith('/'): image = image[1:]"
StripSlash(image) == IF image # <<>> /\ image[1] = "/" THEN Tail(image) ELSE image

BodyToks == { Tok("usetext", <<>>, 0), Tok("hr", <<>>, 0) }
              \cup { Tok("img", u, 0) : u \in LocalUrls }

CreatedTimes == 0..(TicksPerDay - 1)     \* translated at some time of day 0
NowTimes == ((RetentionDays - 1) * TicksPerDay)..((RetentionDays + 2) * TicksPerDay - 1)

Documents ==
    { yaml_header(<<>>, u, c) \o b :
        u \in {0, 1}, c \in CreatedTimes, b \in SeqsUpTo(BodyToks, MaxBody) }

\* the image files the image stage may have left under input_folder
InputImageFiles ==
    { <<"images", "i1.webp">>, <<"sub", "images", "i1.webp">>, <<"images", "i2.webp">> }

\* file.py:122-123: root/images/<name>.webp
thumbnail_file_path(key) == key.dir \o <<"images", Webp(key.name)>>
\* file.py:139-145
target_thumbnail_path(key) == key.dir \o <<"images", "thumbnails", Webp(key.name)>>

RECURSIVE copy_markdown_images_from(_, _, _, _)
\* file.py:160-186: the files copy_markdown_images adds to <nextjs>/public
copy_markdown_images_from(images, i, key, files) ==
    IF i > Len(images) THEN {}
    ELSE LET image == StripSlash(images[i])
             rest == copy_markdown_images_from(images, i + 1, key, files)
         IN IF key.dir \o image \in files
            THEN {key.dir \o image} \cup rest          \* found beside the document
            ELSE IF image \in files
                 THEN {image} \cup rest                \* found from the input root
                 ELSE rest                             \* "Image not found"

\* file.py:160-186 without the second lookup, from the input root
copy_markdown_images_own_directory(key, text, files) ==
    { key.dir \o StripSlash(image) : image \in Range(extract_image_urls(text)) } \cap files

copy_markdown_images(key, text, files) ==
    copy_markdown_images_from(extract_image_urls(text), 1, key, files)

\* everything copy_to_nextjs puts under <nextjs>/public for one document
PlacedFiles(key) ==
    (IF thumbnail_file_path(key) \in input_files
     THEN {target_thumbnail_path(key)} ELSE {})
    \cup copy_markdown_images(key, input_md[key], input_files)

InitPublish ==
    /\ ScrapeIdle
    /\ MainIdle
    /\ TranslateIdle
    /\ NameIdle
    /\ LedgerIdle
    /\ ImageIdle
    /\ GroupIdle
    /\ MergeIdle
    /\ \E key \in DocKeys, doc \in Documents :
           /\ input_md = [k \in {key} |-> doc]
           /\ \E imgs \in SUBSET InputImageFiles, thumbs \in SUBSET {thumbnail_file_path(key)} :
                  input_files = imgs \cup thumbs
    /\ content = EmptyFn
    /\ public = {}
    /\ pcP = "input"
    /\ todoP = {}
    /\ now = 0
    /\ publicAfterCopy = {}
    /\ delete_calls = {}

\* copy_to_nextjs: os.walk(input_folder) lists the files
StartCopy ==
    /\ pcP = "input"
    /\ pcP' = "copying"
    /\ todoP' = DOMAIN input_md
    /\ UNCHANGED <<input_md, input_files, content, public, now, publicAfterCopy, delete_calls>>
    /\ UNCHANGED notPublish

\* file.py:115-157: the loop body of copy_to_nextjs for one Markdown file
CopyFile(key) ==
    /\ pcP = "copying"
    /\ key \in todoP
    /\ todoP' = todoP \ {key}
    /\ IF used_pattern(input_md[key])
       THEN /\ content' = With(content, key, input_md[key])
            /\ public' = public \cup PlacedFiles(key)
       ELSE UNCHANGED <<content, public>>
    /\ UNCHANGED <<input_md, input_files, pcP, now, publicAfterCopy, delete_calls>>
    /\ UNCHANGED notPublish

\* copy_to_nextjs returns
EndCopy ==
    /\ pcP = "copying"
    /\ todoP = {}
    /\ pcP' = "published"
    /\ publicAfterCopy' = public
    /\ UNCHANGED <<input_md, input_files, content, public, todoP, now, delete_calls>>
    /\ UNCHANGED notPublish

\* the first index at or after i whose token holds dashes; 0 when there is none
RECURSIVE NextDashes(_, _)
NextDashes(text, i) ==
    IF i > Len(text) THEN 0
    ELSE IF HasDashes(text[i]) THEN i ELSE NextDashes(text, i + 1)

\* file.py:267-270: re.search(r'---\s*(.*?)\s*---', content, re.DOTALL): the
\* text between the first dashes and the next ones; "none" without a match
frontmatter_match(text) ==
    LET i == NextDashes(text, 1)
        j == IF i = 0 THEN 0 ELSE NextDashes(text, i + 1)
    IN IF j = 0 THEN [found |-> FALSE, group |-> <<>>]
       ELSE [found |-> TRUE, group |-> SubSeq(text, i + 1, j - 1)]

\* file.py:272-274: the first created_at of the frontmatter; -1 without a match
RECURSIVE date_match(_, _)
date_match(frontmatter, i) ==
    IF i > Len(frontmatter) THEN -1
    ELSE IF frontmatter[i].k = "created" THEN frontmatter[i].n
         ELSE date_match(frontmatter, i + 1)

\* file.py:279-280: strptime of the captured \d{4}-\d{2}-\d{2}: the time of
\* day that created_at holds is dropped
created_date(created_at) == (created_at \div TicksPerDay) * TicksPerDay

\* file.py:253
cutoff_date(t) == t - RetentionDays * TicksPerDay

\* os.walk is top-down: the files of a directory come before those below it
FirstInWalk(keys) == {k \in keys : \A k2 \in keys : Len(k.dir) <= Len(k2.dir)}

\* file.py:207-212: the path delete_nextjs_markdown_file looks for the thumbnail at
delete_thumbnail_path(name) == <<"images", "thubnails", Webp(name)>>

RECURSIVE delete_images_skip_missing(_, _, _)
\* the loop with a missing image passed over instead of raising
delete_images_skip_missing(images, i, files) ==
    IF i > Len(images) THEN [files |-> files, ok |-> TRUE]
    ELSE delete_images_skip_missing(images, i + 1, files \ {StripSlash(images[i])})

RECURSIVE delete_images(_, _, _)
\* file.py:222-235: remove the images in order; stop at the first missing one
delete_images(images, i, files) ==
    IF i > Len(images) THEN [files |-> files, ok |-> TRUE]
    ELSE LET image_path == StripSlash(images[i])
         IN IF image_path \in files
            THEN delete_images(images, i + 1, files \ {image_path})
            ELSE [files |-> files, ok |-> FALSE]      \* raise FileNotFoundError

\* file.py:189-244: delete_nextjs_markdown_file(nextjs_folder, name), given the
\* file  markdown_path  the walk found for that name
delete_nextjs_markdown_file(markdown_path, cont, pub) ==
    LET pub1 == pub \ {delete_thumbnail_path(markdown_path.name)}
        del == delete_images(extract_image_urls(cont[markdown_path]), 1, pub1)
    IN [content |-> IF del.ok THEN Without(cont, markdown_path) ELSE cont,
        public |-> del.files,
        ok |-> del.ok]

\* file.py:261-285: does the loop body of cleanup_old_markdown_files call
\* delete_nextjs_markdown_file for this text at time t
IsExpired(text, t) ==
    LET fm == frontmatter_match(text)
        created_at == IF fm.found THEN date_match(fm.group, 1) ELSE -1
    IN /\ fm.found
       /\ created_at # -1
       /\ created_date(created_at) < cutoff_date(t)

\* cleanup_old_markdown_files: datetime.now(), os.walk(content_folder)
StartCleanup(t) ==
    /\ pcP = "published"
    /\ pcP' = "cleaning"
    /\ now' = t
    /\ todoP' = DOMAIN content
    /\ delete_calls' = {}
    /\ UNCHANGED <<input_md, input_files, content, public, publicAfterCopy>>
    /\ UNCHANGED notPublish

\* file.py:256-285: the loop body of cleanup_old_markdown_files for one file
CleanFile(key) ==
    /\ pcP = "cleaning"
    /\ key \in FirstInWalk(todoP)
    /\ key \in DOMAIN content
    /\ todoP' = todoP \ {key}
    /\ IF IsExpired(content[key], now)
       THEN \E markdown_path \in FirstInWalk({k \in DOMAIN content : k.name = key.name}) :
               LET r == delete_nextjs_markdown_file(markdown_path, content, public)
               IN /\ content' = r.content
                  /\ public' = r.public
                  /\ delete_calls' = delete_calls \cup
                         {[file |-> key, markdown_path |-> markdown_path,
                           text |-> content[markdown_path], before |-> public,
                           after |-> r.public, result |-> r.ok,
                           removed |-> markdown_path \notin DOMAIN r.content]}
       ELSE UNCHANGED <<content, public, delete_calls>>
    /\ UNCHANGED <<input_md, input_files, pcP, now, publicAfterCopy>>
    /\ UNCHANGED notPublish

\* cleanup_old_markdown_files returns
EndCleanup ==
    /\ pcP = "cleaning"
    /\ todoP = {}
    /\ pcP' = "cleaned"
    /\ UNCHANGED <<input_md, input_files, content, public, todoP, now, publicAfterCopy,
                   delete_calls>>
    /\ UNCHANGED notPublish

NextPublish ==
    \/ StartCopy
    \/ \E key \in DocKeys : CopyFile(key)
    \/ EndCopy
    \/ \E t \in NowTimes : StartCleanup(t)
    \/ \E key \in DocKeys : CleanFile(key)
    \/ EndCleanup

SpecPublish == InitPublish /\ [][NextPublish]_vars

\* the use flag of the frontmatter block of a document (1 true, 0 false)
FrontmatterUse(text) ==
    LET fm == frontmatter_match(text).group
        at == {i \in DOMAIN fm : fm[i].k = "use"}
    IN IF at = {} THEN 0 ELSE fm[CHOOSE i \in at : \A j \in at : i <= j].n

\* C3: a document whose frontmatter has use: false is never copied to the
\* publish destination, whatever its body holds.
C3_UseFalseNeverPublished ==
    \A key \in DOMAIN content : FrontmatterUse(input_md[key]) = 1

Age(key) == now - date_match(frontmatter_match(input_md[key]).group, 1)

\* C4: after the cleanup of a destination that copy_to_nextjs populated, a
\* published document created 31 days ago is gone, with its thumbnail and
\* its inline images where the publish stage placed them; one created 29
\* days ago is still there with everything the publish stage placed.
C4_Retention31And29Days ==
    pcP = "cleaned" =>
        \A key \in DOMAIN input_md :
            used_pattern(input_md[key]) =>
                /\ Age(key) = 31 * TicksPerDay =>
                       /\ key \notin DOMAIN content
                       /\ PlacedFiles(key) \cap public = {}
                /\ Age(key) = 29 * TicksPerDay =>
                       /\ key \in DOMAIN content
                       /\ PlacedFiles(key) \subseteq public

C21_MarkdownKeptWhenImageDeletionFails ==
    \A d \in delete_calls :
        LET images == Range(extract_image_urls(d.text))
        IN /\ (\E image \in images : StripSlash(image) \notin d.before) =>
                  (~d.result /\ ~d.removed)
           /\ d.removed =>
                  (d.result /\ \A image \in images : StripSlash(image) \notin d.after)

\* C21 witness: a call for a document with two inline images, the first
\* there and deleted, the second missing
C21_Witness ==
    \E d \in delete_calls :
        LET images == extract_image_urls(d.text)
        IN /\ Len(images) = 2
           /\ StripSlash(images[1]) \in d.before
           /\ StripSlash(images[1]) \notin d.after
           /\ StripSlash(images[2]) \notin d.before
           /\ ~d.result

\* C22: the cleanup deletes a published document only when its created_at
\* instant, date and time of day, is more than 30 days before the time of the
\* cleanup: a document aged 30 days or less is left as the publish stage
\* placed it, whatever the times of day of its creation and of the cleanup.
C22_DeletedOnlyWhenOlderThan30Days ==
    pcP = "cleaned" =>
        \A key \in DOMAIN input_md :
            (used_pattern(input_md[key]) /\ Age(key) <= RetentionDays * TicksPerDay) =>
                /\ key \in DOMAIN content
                /\ content[key] = input_md[key]
                /\ PlacedFiles(key) \subseteq public

(***************************************************************************)
(* The retention cleaner over a destination that holds two documents: two  *)
(* documents that share an image file, or two files of the same name in    *)
(* different directories of the content tree. The publish stage places     *)
(* them, then the cleanup runs.                                            *)
(***************************************************************************)
CleanKeys == DocKeys \cup {[dir |-> <<>>, name |-> "d2.md"]}

\* created on day 0 or on day 3, at the start of the day
CleanCreatedTimes == {0, 3 * TicksPerDay}

CleanDocuments ==
    { yaml_header(<<>>, 1, c) \o b :
        c \in CleanCreatedTimes,
        b \in { <<>>, <<Tok("img", <<"images", "i2.webp">>, 0)>>,
                <<Tok("img", <<"/", "images", "i1.webp">>, 0)>> } }

InitCleanup ==
    /\ ScrapeIdle
    /\ MainIdle
    /\ TranslateIdle
    /\ NameIdle
    /\ LedgerIdle
    /\ ImageIdle
    /\ GroupIdle
    /\ MergeIdle
    /\ \E K \in SUBSET CleanKeys :
           /\ Cardinality(K) \in {1, 2}
           /\ input_md \in [K -> CleanDocuments]
           /\ input_files = InputImageFiles \cup {thumbnail_file_path(key) : key \in K}
    /\ content = EmptyFn
    /\ public = {}
    /\ pcP = "input"
    /\ todoP = {}
    /\ now = 0
    /\ publicAfterCopy = {}
    /\ delete_calls = {}

NextCleanup ==
    \/ StartCopy
    \/ \E key \in CleanKeys : CopyFile(key)
    \/ EndCopy
    \/ \E t \in NowTimes : StartCleanup(t)
    \/ \E key \in CleanKeys : CleanFile(key)
    \/ EndCleanup

SpecCleanup == InitCleanup /\ [][NextCleanup]_vars

\* C28: the cleanup never deletes an image file that a published document
\* which is not expired still references, and two top-level documents that
\* reference the same image file are both gone once both have expired.
C28_SharedImageKeptWhileReferenced ==
    /\ pcP \in {"cleaning", "cleaned"} =>
           \A key \in DOMAIN content :
               ~ IsExpired(content[key], now) => PlacedFiles(key) \subseteq public
    /\ pcP = "cleaned" =>
           \A k1, k2 \in DOMAIN input_md :
               ( /\ k1 # k2
                 /\ k1.dir = <<>> /\ k2.dir = <<>>
                 /\ IsExpired(input_md[k1], now) /\ IsExpired(input_md[k2], now)
                 /\ extract_image_urls(input_md[k1]) = extract_image_urls(input_md[k2]) )
               => (k1 \notin DOMAIN content /\ k2 \notin DOMAIN content)

\* C29: every Markdown file the cleanup removed is itself expired: its own
\* created_at is older than the window, also when a file of the same name
\* lies in another directory of the content tree.
C29_OnlyExpiredFilesRemoved ==
    \A d \in delete_calls : d.removed => IsExpired(d.text, now)

(***************************************************************************)
(* Image stage: core/image.py, driven by step_6_download_images.           *)
(* The text of a URL or of a path is a sequence of pieces; a document is   *)
(* the header translate_article_list wrote followed by image references,   *)
(* each an "img" token  ![alt](url)  or a "tag" token  <img src="url">,    *)
(* the two forms image_pattern recognises.                                 *)
(***************************************************************************)
Scheme == "http://"
Quote == "'"

\* image_url.startswith(('/', '.', 'data'))
startswith_local(image_url) == image_url # <<>> /\ image_url[1] \in {"/", ".", "data"}

\* '://' in image_url
has_scheme(image_url) == \E i \in DOMAIN image_url : image_url[i] = Scheme

\* the thumbnail of a translated article: none, a remote URL, a remote URL
\* with an apostrophe in it, the path an earlier image run wrote
ThumbUrls ==
    { <<>>,
      <<Scheme, "h/", "t.jpg">>,
      <<Scheme, "h/", "it", Quote, "s.jpg">>,
      <<"data", "6.images", "images", "d1.webp">> }

\* inline URLs: a remote one, the same with a query string, a relative one
\* (a substring of both), a local one, and the empty URL
InlineUrls ==
    { <<Scheme, "h/", "a.jpg">>,
      <<Scheme, "h/", "a.jpg", "?w=1">>,
      <<"a.jpg">>,
      <<"/", "images", "a.webp">>,
      <<>> }

ImgToks == { Tok(k, u, 0) : k \in {"img", "tag"}, u \in InlineUrls }

ImgDocuments ==
    { yaml_header(t, 1, 0) \o b : t \in ThumbUrls, b \in SeqsUpTo(ImgToks, MaxImgBody) }

\* position of the first quote character in a piece of text, 0 if none
FirstQuote(text) ==
    LET at == {i \in DOMAIN text : text[i] = Quote}
    IN IF at = {} THEN 0 ELSE CHOOSE i \in at : \A j \in at : i <= j

\* image.py:12-17: ---\s*.*?thumbnail:\s*["'](.*?)["'].*?---  with DOTALL;
\* group 1 stops at the first quote character after the opening one
extract_thumbnail_from_yaml(text) ==
    LET at == {i \in DOMAIN text :
                  /\ text[i].k = "thumb"
                  /\ \E a \in 1..(i - 1) : HasDashes(text[a])
                  /\ \E b \in (i + 1)..Len(text) : HasDashes(text[b])}
    IN IF at = {} THEN <<>>
       ELSE LET field == text[CHOOSE i \in at : \A j \in at : i <= j].url
            IN IF FirstQuote(field) = 0 THEN field
               ELSE SubSeq(field, 1, FirstQuote(field) - 1)

\* re.sub(r'(thumbnail:\s*["\']).*?(["\'])', r'\1' + repl + r'\2', text):
\* on each thumbnail line, the text up to the first quote character after
\* the opening one is replaced, what follows that quote stays
thumbnail_sub(text, repl) ==
    [i \in DOMAIN text |->
        IF text[i].k = "thumb"
        THEN LET field == text[i].url
             IN [text[i] EXCEPT !.url =
                    IF FirstQuote(field) = 0 THEN repl
                    ELSE repl \o SubSeq(field, FirstQuote(field), Len(field))]
        ELSE text[i]]

\* image.py:100-101 for the document d1.md: the .webp file, its .tmp file,
\* and str(thumbnail_filename).replace('\\', '/')
thumbnail_filename == "d1.webp"
temp_filename == "d1.tmp"
thumbnail_filename_str == <<"data", "6.images", "images", thumbnail_filename>>

\* a file under output_dir: the URL its bytes came from, and whether the
\* write of it was completed
File(src, whole) == [src |-> src, whole |-> whole]

\* what a download and conversion can do; requests.get raises MissingSchema
\* for a URL without a scheme
DownloadOutcomes(url) ==
    IF has_scheme(url)
    THEN {"request_fails", "stream_fails", "open_fails", "save_fails", "ok"}
    ELSE {"request_fails"}

\* image.py:94-134
_process_thumbnail(text, files, outcome) ==
    LET thumbnail_url == extract_thumbnail_from_yaml(text)
        cleared == thumbnail_sub(text, <<>>)
    IN IF thumbnail_url = <<>> THEN [content |-> text, disk |-> files]
       ELSE CASE outcome = "request_fails" ->
                     [content |-> cleared, disk |-> files]
              [] outcome = "stream_fails" ->       \* iter_content raises
                     [content |-> cleared,
                      disk |-> With(files, temp_filename, File(thumbnail_url, FALSE))]
              [] outcome = "open_fails" ->         \* Image.open raises
                     [content |-> cleared, disk |-> Without(files, temp_filename)]
              [] outcome = "save_fails" ->         \* img.save raises
                     [content |-> cleared,
                      disk |-> With(Without(files, temp_filename), thumbnail_filename,
                                    File(thumbnail_url, FALSE))]
              [] outcome = "ok" ->
                     [content |-> thumbnail_sub(text, thumbnail_filename_str),
                      disk |-> With(Without(files, temp_filename), thumbnail_filename,
                                    File(thumbnail_url, TRUE))]

\* image.py:172-189: os.path.basename(urlparse(image_url).path), '.jpg'
\* added when it has no extension
safe_filename(image_url) ==
    IF \E i \in DOMAIN image_url : image_url[i] = "a.jpg" THEN "a.jpg" ELSE ".jpg"

\* image.py:48-49: source_path.with_suffix('.webp')
with_suffix_webp(name) == CASE name = "a.jpg" -> "a.webp" [] name = ".jpg" -> ".jpg.webp"

\* image.py:170-208: the files it leaves, the path it returns, or raised
_download_and_convert_image(image_url, files, outcome) ==
    LET local_path == safe_filename(image_url)
        webp_path == with_suffix_webp(local_path)
    IN CASE outcome = "request_fails" ->
                [raised |-> TRUE, path |-> "", disk |-> files]
         [] outcome = "stream_fails" ->
                [raised |-> TRUE, path |-> "",
                 disk |-> With(files, local_path, File(image_url, FALSE))]
         [] outcome = "open_fails" ->
                [raised |-> TRUE, path |-> "",
                 disk |-> With(files, local_path, File(image_url, TRUE))]
         [] outcome = "save_fails" ->
                [raised |-> TRUE, path |-> "",
                 disk |-> With(With(files, local_path, File(image_url, TRUE)),
                               webp_path, File(image_url, FALSE))]
         [] outcome = "ok" ->
                [raised |-> FALSE, path |-> webp_path,
                 disk |-> With(With(files, local_path, File(image_url, TRUE)),
                               webp_path, File(image_url, TRUE))]

\* image.py:155-156: str(local_path).replace('data\\6.images', '').replace('\\', '/')
local_path_str(sep, name) ==
    IF sep = "nt" THEN <<"/", "images", name>>
    ELSE <<"data", "6.images", "images", name>>

\* the matches of image_pattern.finditer(text), in order
image_pattern_finditer(text) == SelectSeq(text, LAMBDA t : t.k \in {"img", "tag"})

RECURSIVE str_replace(_, _, _)
\* Python's text.replace(old, new); with old = '' only new = '' occurs here
str_replace(text, old, new) ==
    IF old = <<>> \/ Len(text) < Len(old) THEN text
    ELSE IF SubSeq(text, 1, Len(old)) = old
         THEN new \o str_replace(SubSeq(text, Len(old) + 1, Len(text)), old, new)
         ELSE <<text[1]>> \o str_replace(Tail(text), old, new)

\* content.replace(old_url, new_path): every URL in the text is rewritten
content_replace(text, old_url, new_path) ==
    [i \in DOMAIN text |->
        [text[i] EXCEPT !.url = str_replace(@, old_url, new_path)]]

RECURSIVE replace_all(_, _, _)
\* image.py:162-165: the replacements applied in the order the dict holds them
replace_all(result, items, i) ==
    IF i > Len(items) THEN result
    ELSE replace_all(content_replace(result, items[i].old, items[i].new), items, i + 1)

\* image.py:211-239 without the second pass
delete_remote_images_nothing(text) == text

\* image.py:211-239: every reference whose URL is non-empty, does not start
\* with a local marker and holds '://' is replaced by ''
delete_remote_images(text) ==
    SelectSeq(text,
              LAMBDA t : ~ ( /\ t.k \in {"img", "tag"}
                             /\ t.url # <<>>
                             /\ ~ startswith_local(t.url)
                             /\ has_scheme(t.url) ))

InitImage ==
    /\ ScrapeIdle
    /\ MainIdle
    /\ TranslateIdle
    /\ NameIdle
    /\ LedgerIdle
    /\ PublishIdle
    /\ GroupIdle
    /\ MergeIdle
    /\ platform \in {"posix", "nt"}
    /\ img_in \in ImgDocuments
    /\ img_content = <<>>
    /\ pcI = "listed"
    /\ matchesI = <<>>
    /\ idxI = 1
    /\ replacements = <<>>
    /\ disk = EmptyFn
    /\ img_out = <<>>
    /\ img_pass1 = <<>>
    /\ requested = <<>>

\* image.py:74-75: the document is read
ReadMarkdown ==
    /\ pcI = "listed"
    /\ img_content' = img_in
    /\ pcI' = "thumbnail"
    /\ UNCHANGED <<platform, img_in, matchesI, idxI, replacements, disk, img_out,
                   img_pass1, requested>>
    /\ UNCHANGED notImage

\* image.py:78 and 139-145: the thumbnail flow, then the inline flow starts
ProcessThumbnail(outcome) ==
    /\ pcI = "thumbnail"
    /\ LET thumbnail_url == extract_thumbnail_from_yaml(img_content)
           r == _process_thumbnail(img_content, disk, outcome)
       IN /\ IF thumbnail_url = <<>> THEN outcome = "none"
             ELSE outcome \in DownloadOutcomes(thumbnail_url)
          /\ img_content' = r.content
          /\ disk' = r.disk
          /\ requested' = IF thumbnail_url = <<>> THEN requested
                          ELSE Append(requested, thumbnail_url)
          /\ matchesI' = image_pattern_finditer(r.content)
    /\ idxI' = 1
    /\ replacements' = <<>>
    /\ pcI' = "inline"
    /\ UNCHANGED <<platform, img_in, img_out, img_pass1>>
    /\ UNCHANGED notImage

Replaced == {replacements[i].old : i \in DOMAIN replacements}

\* image.py:146-149: group(1) or group(2) is None for ![alt](), and
\* None.startswith raises AttributeError out of the stage
InlineCrash ==
    /\ pcI = "inline"
    /\ idxI <= Len(matchesI)
    /\ matchesI[idxI].k = "img" /\ matchesI[idxI].url = <<>>
    /\ pcI' = "crashed"
    /\ UNCHANGED <<platform, img_in, img_content, matchesI, idxI, replacements, disk,
                   img_out, img_pass1, requested>>
    /\ UNCHANGED notImage

\* image.py:149-150: a local path, or a URL already in replacements
InlineSkip ==
    /\ pcI = "inline"
    /\ idxI <= Len(matchesI)
    /\ ~ (matchesI[idxI].k = "img" /\ matchesI[idxI].url = <<>>)
    /\ startswith_local(matchesI[idxI].url) \/ matchesI[idxI].url \in Replaced
    /\ idxI' = idxI + 1
    /\ UNCHANGED <<platform, img_in, img_content, pcI, matchesI, replacements, disk,
                   img_out, img_pass1, requested>>
    /\ UNCHANGED notImage

\* image.py:152-160
InlineDownload(outcome) ==
    /\ pcI = "inline"
    /\ idxI <= Len(matchesI)
    /\ ~ (matchesI[idxI].k = "img" /\ matchesI[idxI].url = <<>>)
    /\ ~ (startswith_local(matchesI[idxI].url) \/ matchesI[idxI].url \in Replaced)
    /\ LET image_url == matchesI[idxI].url
           r == _download_and_convert_image(image_url, disk, outcome)
       IN /\ outcome \in DownloadOutcomes(image_url)
          /\ disk' = r.disk
          /\ requested' = Append(requested, image_url)
          /\ replacements' =
                Append(replacements,
                       [old |-> image_url,
                        new |-> IF r.raised THEN <<>>
                                ELSE local_path_str(platform, r.path)])
    /\ idxI' = idxI + 1
    /\ UNCHANGED <<platform, img_in, img_content, pcI, matchesI, img_out, img_pass1>>
    /\ UNCHANGED notImage

\* image.py:162-167 and 83-91: the replacements are applied, the file written
WriteMarkdown ==
    /\ pcI = "inline"
    /\ idxI > Len(matchesI)
    /\ img_out' = replace_all(img_content, replacements, 1)
    /\ img_pass1' = img_out'
    /\ pcI' = "written"
    /\ UNCHANGED <<platform, img_in, img_content, matchesI, idxI, replacements, disk,
                   requested>>
    /\ UNCHANGED notImage

\* pipeline.py:272: the second pass over the file just written
DeleteRemote ==
    /\ pcI = "written"
    /\ img_out' = delete_remote_images(img_out)
    /\ pcI' = "done"
    /\ UNCHANGED <<platform, img_in, img_content, matchesI, idxI, replacements, disk,
                   img_pass1, requested>>
    /\ UNCHANGED notImage

NextImage ==
    \/ ReadMarkdown
    \/ \E outcome \in {"none", "request_fails", "stream_fails", "open_fails",
                       "save_fails", "ok"} : ProcessThumbnail(outcome)
    \/ InlineCrash
    \/ InlineSkip
    \/ \E outcome \in {"request_fails", "stream_fails", "open_fails", "save_fails",
                       "ok"} : InlineDownload(outcome)
    \/ WriteMarkdown
    \/ DeleteRemote

SpecImage == InitImage /\ [][NextImage]_vars

\* the thumbnail field of the frontmatter block: the text between the
\* quotes that delimit it
ThumbnailField(text) ==
    LET fm == frontmatter_match(text).group
        at == {i \in DOMAIN fm : fm[i].k = "thumb"}
    IN IF at = {} THEN <<>> ELSE fm[CHOOSE i \in at : \A j \in at : i <= j].url

\* the document as the stage holds it once the thumbnail flow has returned
AfterThumbnail == IF pcI = "inline" THEN img_content ELSE img_out

\* C5: once _process_thumbnail has returned, the thumbnail field of the
\* document is empty or it is the local path of a completely written file on
\* disk; it is never a remote URL, a temporary file or a half-written file.
C5_ThumbnailEmptyOrLocalFile ==
    pcI \in {"inline", "written", "done"} =>
        \/ ThumbnailField(AfterThumbnail) = <<>>
        \/ /\ ThumbnailField(AfterThumbnail) = thumbnail_filename_str
           /\ thumbnail_filename \in DOMAIN disk
           /\ disk[thumbnail_filename].whole

Occurs(old, text) ==
    old # <<>> /\ \E i \in 1..(Len(text) - Len(old) + 1) : SubSeq(text, i, i + Len(old) - 1) = old

\* the image references of a document whose target is empty
EmptyRefs(text) == {i \in DOMAIN text : text[i].k \in {"img", "tag"} /\ text[i].url = <<>>}

\* the inline URLs whose download or conversion raised
FailedUrls == {replacements[i].old : i \in {n \in DOMAIN replacements : replacements[n].new = <<>>}}

\* C23: in the document the image stage leaves, no image reference holds a
\* URL whose download or conversion failed, and no reference with an empty
\* target stands where such a URL was: the stage adds no empty reference to
\* those the input had.
C23_FailedUrlLeavesNoDanglingReference ==
    pcI = "done" =>
        /\ \A u \in FailedUrls : \A i \in DOMAIN img_out :
               img_out[i].k \in {"img", "tag"} => ~ Occurs(u, img_out[i].url)
        /\ (FailedUrls # {}) =>
               Cardinality(EmptyRefs(img_out)) <= Cardinality(EmptyRefs(img_in))

\* a document the image stage has localized: its thumbnail field is empty or
\* begins with a local-path marker, and so does every inline reference
Localized(text) ==
    \A i \in DOMAIN text :
        /\ text[i].k \in {"img", "tag"} => startswith_local(text[i].url)
        /\ text[i].k = "thumb" => (text[i].url = <<>> \/ startswith_local(text[i].url))

\* C24: the image stage run over a document whose thumbnail and inline
\* references all begin with a local-path marker requests no download and
\* leaves the document, thumbnail field and inline references, as it was.
C24_LocalizedDocumentUntouched ==
    (pcI = "done" /\ Localized(img_in)) =>
        /\ requested = <<>>
        /\ img_out = img_in

\* the orders in which n entries can be applied
Orders(n) == {f \in [1..n -> 1..n] : \A a, b \in 1..n : f[a] = f[b] => a = b}

\* C25: the body written by the inline flow is the same in whatever order
\* the entries of the replacement map are applied, also when one URL is a
\* prefix of another, and every reference whose URL was downloaded holds the
\* local path recorded for that URL.
C25_ReplacementOrderIrrelevant ==
    pcI \in {"written", "done"} =>
        /\ \A f \in Orders(Len(replacements)) :
               replace_all(img_content, [i \in DOMAIN replacements |-> replacements[f[i]]], 1)
                   = img_pass1
        /\ \A i \in DOMAIN img_content : \A n \in DOMAIN replacements :
               ( /\ img_content[i].k \in {"img", "tag"}
                 /\ img_content[i].url = replacements[n].old
                 /\ replacements[n].new # <<>> ) =>
                   img_pass1[i].url = replacements[n].new

\* C30: in one run of the image stage two distinct remote URLs are never
\* stored under the same local file: every rewritten reference points to a
\* completely written file that holds the image of its own URL.
C30_DistinctUrlsDistinctFiles ==
    pcI \in {"written", "done"} =>
        /\ \A n \in DOMAIN replacements :
               replacements[n].new # <<>> =>
                   LET name == replacements[n].new[Len(replacements[n].new)]
                   IN /\ name \in DOMAIN disk
                      /\ disk[name].whole
                      /\ disk[name].src = replacements[n].old
        /\ \A n, m \in DOMAIN replacements :
               (n # m /\ replacements[n].new # <<>>) =>
                   replacements[n].new # replacements[m].new

(***************************************************************************)
(* Grouping stage: pipeline.py step_2_group_articles, core/gemini.py       *)
(* group_article and _fallback_group_articles, utils/file.py               *)
(* update_group_ids_to_raw_id. In the JSON of the batch a sequence id is   *)
(* an integer and a raw_id is a string: the model writes the integer n as  *)
(* ToString(n) and takes raw ids from letters, so the two never compare    *)
(* equal, as in Python.                                                    *)
(***************************************************************************)
max_retries == 3
initial_retry_delay == 5

BatchRawIds == {"a", "b"}
BatchTitles == {"t1", "t2"}
BatchThumbnails == {"", "u1"}

\* pipeline.py:144: article.__dict__ of the i-th article of the batch
BatchArticle(i, raw_id, title, thumbnail) ==
    [id |-> ToString(i), raw_id |-> raw_id, title |-> title, thumbnail |-> thumbnail]

BatchesOfLen(n) ==
    { [i \in 1..n |-> BatchArticle(i, r[i], t[i], th[i])] :
        r \in [1..n -> BatchRawIds], t \in [1..n -> BatchTitles],
        th \in [1..n -> BatchThumbnails] }

\* step 1 returns a batch file only for a non-empty batch
Batches == UNION { BatchesOfLen(n) : n \in 1..MaxBatch }

Group(id, title, thumbnail) == [id |-> id, title |-> title, thumbnail |-> thumbnail]

\* gemini.py:473-495
_fallback_group_articles(articles) ==
    [i \in DOMAIN articles |->
        Group(<<articles[i].raw_id>>, articles[i].title, articles[i].thumbnail)]

RECURSIVE Reverse(_)
Reverse(seq) == IF seq = <<>> THEN <<>> ELSE Append(Reverse(Tail(seq)), Head(seq))

\* the groupings the AI answers with: every article alone under its own
\* title, all articles in one group under a new title, in the order of the
\* batch or in another, or a group naming an id the batch does not hold
\* (sequence ids start at 1); "thumbnail": []
AIGroupings(articles) ==
    { [i \in DOMAIN articles |-> Group(<<articles[i].id>>, articles[i].title, "")],
      << Group([i \in DOMAIN articles |-> articles[i].id], "summary", "") >>,
      << Group(Reverse([i \in DOMAIN articles |-> articles[i].id]), "summary", "") >>,
      << Group(<<articles[1].id, ToString(0)>>, "summary", "") >> }

\* dict.get(key, default) on {item['id']: item[field] for item in raw_html}:
\* the last item with that id wins
DictGet(items, field, key, default) ==
    LET at == {i \in DOMAIN items : items[i].id = key}
    IN IF at = {} THEN default
       ELSE items[CHOOSE i \in at : \A j \in at : j <= i][field]

\* file.py:84-99 with the thumbnail taken from the last member of the group
update_group_ids_last_thumbnail(items, groups) ==
    [g \in DOMAIN groups |->
        Group([m \in DOMAIN groups[g].id |->
                  DictGet(items, "raw_id", groups[g].id[m], groups[g].id[m])],
              groups[g].title,
              DictGet(items, "thumbnail", groups[g].id[Len(groups[g].id)], ""))]

\* file.py:84-99
update_group_ids_to_raw_id(items, groups) ==
    [g \in DOMAIN groups |->
        Group([m \in DOMAIN groups[g].id |->
                  DictGet(items, "raw_id", groups[g].id[m], groups[g].id[m])],
              groups[g].title,
              DictGet(items, "thumbnail", groups[g].id[1], ""))]

\* a wait that stays the same from one attempt to the next
next_retry_delay_constant(delay) == delay

\* gemini.py:194 and 275: retry_delay *= 2
next_retry_delay(delay) == delay * 2

InitGroup ==
    /\ ScrapeIdle
    /\ MainIdle
    /\ TranslateIdle
    /\ NameIdle
    /\ LedgerIdle
    /\ PublishIdle
    /\ ImageIdle
    /\ MergeIdle
    /\ client \in BOOLEAN
    /\ raw_html \in Batches
    /\ pcG = "step2"
    /\ attempt = 0
    /\ retry_delay = 0
    /\ sleeps = <<>>
    /\ response = "none"
    /\ groups_json = None
    /\ groups_file = None
    /\ result2 = "none"
    /\ pipeline = "step2"

\* gemini.py:160-162: "if not client" returns the fallback grouping
FallbackGroup ==
    /\ pcG = "step2"
    /\ ~ client
    /\ groups_json' = Some(_fallback_group_articles(raw_html))
    /\ response' = "fallback"
    /\ pcG' = "returned"
    /\ UNCHANGED <<client, raw_html, attempt, retry_delay, sleeps, groups_file, result2,
                   pipeline>>
    /\ UNCHANGED notGroup

\* gemini.py:164-180: the batch is read, the retry loop is entered
StartAttempts ==
    /\ pcG = "step2"
    /\ client
    /\ attempt' = 0
    /\ retry_delay' = initial_retry_delay
    /\ pcG' = "attempt"
    /\ UNCHANGED <<client, raw_html, sleeps, response, groups_json, groups_file, result2,
                   pipeline>>
    /\ UNCHANGED notGroup

\* gemini.py:188-196: generate_content raises
AttemptRaises ==
    /\ pcG = "attempt"
    /\ IF attempt < max_retries - 1
       THEN /\ sleeps' = Append(sleeps, retry_delay)
            /\ retry_delay' = next_retry_delay(retry_delay)
            /\ attempt' = attempt + 1
            /\ UNCHANGED <<pcG, response, groups_json>>
       ELSE /\ response' = "raised"
            /\ groups_json' = None
            /\ pcG' = "returned"
            /\ UNCHANGED <<sleeps, retry_delay, attempt>>
    /\ UNCHANGED <<client, raw_html, groups_file, result2, pipeline>>
    /\ UNCHANGED notGroup

\* gemini.py:198-200: the call returns without text
AttemptEmpty ==
    /\ pcG = "attempt"
    /\ response' = "empty"
    /\ groups_json' = None
    /\ pcG' = "returned"
    /\ UNCHANGED <<client, raw_html, attempt, retry_delay, sleeps, groups_file, result2,
                   pipeline>>
    /\ UNCHANGED notGroup

\* gemini.py:221-226: json.loads of the answer raises JSONDecodeError
AttemptNotJson ==
    /\ pcG = "attempt"
    /\ response' = "not_json"
    /\ groups_json' = None
    /\ pcG' = "returned"
    /\ UNCHANGED <<client, raw_html, attempt, retry_delay, sleeps, groups_file, result2,
                   pipeline>>
    /\ UNCHANGED notGroup

\* gemini.py:202-222: the answer parses as JSON
AttemptAnswers(groups) ==
    /\ pcG = "attempt"
    /\ response' = "json"
    /\ groups_json' = Some(groups)
    /\ pcG' = "returned"
    /\ UNCHANGED <<client, raw_html, attempt, retry_delay, sleeps, groups_file, result2,
                   pipeline>>
    /\ UNCHANGED notGroup

\* pipeline.py:166-186: the rest of step_2_group_articles
SaveGroups ==
    /\ pcG = "returned"
    /\ IF groups_json = None
       THEN /\ result2' = "None"
            /\ UNCHANGED groups_file
       ELSE /\ groups_file' = Some(update_group_ids_to_raw_id(raw_html, groups_json[1]))
            /\ result2' = "file"
    /\ pcG' = "done"
    /\ UNCHANGED <<client, raw_html, attempt, retry_delay, sleeps, response, groups_json,
                   pipeline>>
    /\ UNCHANGED notGroup

\* pipeline.py:54-61: run_full_pipeline after step 2
AfterStep2 ==
    /\ pcG = "done"
    /\ pipeline = "step2"
    /\ pipeline' = IF result2 = "None" THEN "returned" ELSE "step3"
    /\ UNCHANGED <<client, raw_html, pcG, attempt, retry_delay, sleeps, response,
                   groups_json, groups_file, result2>>
    /\ UNCHANGED notGroup

NextGroup ==
    \/ FallbackGroup
    \/ StartAttempts
    \/ AttemptRaises
    \/ AttemptEmpty
    \/ AttemptNotJson
    \/ \E groups \in AIGroupings(raw_html) : AttemptAnswers(groups)
    \/ SaveGroups
    \/ AfterStep2

SpecGroup == InitGroup /\ [][NextGroup]_vars

\* C7: when step 2 used the fallback grouping on a batch of N articles, the
\* groups file holds exactly N groups, the i-th with the one id raw_id of the
\* i-th article, its title and its thumbnail.
C7_FallbackKeepsTitleAndThumbnail ==
    (pcG = "done" /\ response = "fallback") =>
        /\ groups_file # None
        /\ Len(groups_file[1]) = Len(raw_html)
        /\ \A i \in DOMAIN raw_html :
               /\ groups_file[1][i].id = <<raw_html[i].raw_id>>
               /\ groups_file[1][i].title = raw_html[i].title
               /\ groups_file[1][i].thumbnail = raw_html[i].thumbnail

\* C8: when the AI service is unavailable (the third attempt raised, the
\* answer was empty, or it was not JSON), step 2 still writes a groups file,
\* the fallback grouping of the batch, and the pipeline goes on to step 3.
C8_ClusteringNeverStopsPipeline ==
    response \in {"raised", "empty", "not_json"} =>
        /\ pcG = "done" =>
               /\ result2 = "file"
               /\ groups_file # None
               /\ Len(groups_file[1]) = Len(raw_html)
               /\ \A i \in DOMAIN raw_html :
                      groups_file[1][i].id = <<raw_html[i].raw_id>>
        /\ pipeline # "returned"

\* C11: after update_group_ids_to_raw_id, in every group of the clustering
\* answer each member id has become the raw_id of the batch article with
\* that sequence id, the members keep their order and number, and the
\* thumbnail of the group is the scraped thumbnail of its first member.
C11_IdsRemappedThumbnailOfFirst ==
    (pcG = "done" /\ response = "json") =>
        /\ groups_file # None
        /\ Len(groups_file[1]) = Len(groups_json[1])
        /\ \A g \in DOMAIN groups_json[1] :
               LET before == groups_json[1][g]
                   after == groups_file[1][g]
               IN /\ Len(after.id) = Len(before.id)
                  /\ after.title = before.title
                  /\ \A m \in DOMAIN before.id : \A i \in DOMAIN raw_html :
                         raw_html[i].id = before.id[m] => after.id[m] = raw_html[i].raw_id
                  /\ \A i \in DOMAIN raw_html :
                         raw_html[i].id = before.id[1] =>
                             after.thumbnail = raw_html[i].thumbnail

\* C11 witness: the answer held a group of two members of the batch, not in
\* the order of the batch, whose scraped thumbnails and raw ids differ
C11_Witness ==
    /\ pcG = "done"
    /\ response = "json"
    /\ Len(raw_html) = 2
    /\ raw_html[1].thumbnail # raw_html[2].thumbnail
    /\ raw_html[1].raw_id # raw_html[2].raw_id
    /\ groups_json[1][1].id = <<raw_html[2].id, raw_html[1].id>>
    /\ groups_file[1][1].thumbnail = raw_html[2].thumbnail

(***************************************************************************)
(* Merge stage: pipeline.py step_3_merge_articles, utils/file.py           *)
(* merge_html_file and append_thumbnail_to_html. The content of an HTML    *)
(* file is a sequence of tags; a heading tag has a level and, when it is   *)
(* an opening tag, attributes or none (<h2> or <h2 id='x'>).               *)
(***************************************************************************)
HtmlTag(k, level, attrs, text) == [k |-> k, level |-> level, attrs |-> attrs, text |-> text]

HOpen(level, attrs) == HtmlTag("open", level, attrs, "")
HClose(level) == HtmlTag("close", level, FALSE, "")

\* the files fetch_and_save_article leaves: one heading each, of level 1,
\* 2, 5 or 6; format_raw_html keeps attributes such as id
HtmlFiles ==
    { <<HOpen(h[1], h[2]), HClose(h[1])>> :
        h \in { <<1, FALSE>>, <<1, TRUE>>, <<2, FALSE>>, <<2, TRUE>>, <<5, FALSE>>,
                <<6, FALSE>> } }

MemberIds == {"a", "b", "c"}

RawDirs == UNION { [S -> HtmlFiles] : S \in SUBSET MemberIds }

\* the groups a groups file holds, after update_group_ids_to_raw_id
MergeGroups ==
    { Group(ids, "T", "u1") : ids \in { <<"a">>, <<"b">>, <<"a", "b">>, <<"a", "b", "c">> } }

GroupsFiles == UNION { [1..n -> MergeGroups] : n \in 1..MaxGroups }

\* file.py:74-81: <img src='thumbnail_path'>\n before the content
append_thumbnail_to_html(html_content, thumbnail_path) ==
    <<HtmlTag("img", 0, TRUE, thumbnail_path)>> \o html_content

\* str.replace(f"<h{i}>", f"<h{i+1}>").replace(f"</h{i}>", f"</h{i+1}>"): the
\* text <h{i}> is an opening tag of level i without attributes
replace_heading(html, i) ==
    [n \in DOMAIN html |->
        IF html[n].level = i /\ ( \/ html[n].k = "open" /\ ~ html[n].attrs
                                  \/ html[n].k = "close" )
        THEN [html[n] EXCEPT !.level = i + 1]
        ELSE html[n]]

RECURSIVE demote_headings(_, _)
\* file.py:55-57: for i in range(5, 0, -1)
demote_headings(html, i) ==
    IF i = 0 THEN html ELSE demote_headings(replace_heading(html, i), i - 1)

RECURSIVE read_members(_, _, _)
\* file.py:46-53: the contents of the member files that exist, joined
read_members(html_files, i, files) ==
    IF i > Len(html_files) THEN <<>>
    ELSE (IF html_files[i] \in DOMAIN files THEN files[html_files[i]] ELSE <<>>)
         \o read_members(html_files, i + 1, files)

\* file.py:38-71: the content written to merged<random>.html
merge_html_file(html_files, files, title_content) ==
    << HtmlTag("article", 0, FALSE, ""),
       HOpen(1, FALSE), HtmlTag("text", 0, FALSE, title_content), HClose(1) >>
    \o demote_headings(read_members(html_files, 1, files), 5)
    \o << HtmlTag("/article", 0, FALSE, "") >>

\* a copy in place of the move: the source stays
shutil_copy(src, dst, name) == [src |-> src, dst |-> With(dst, name, src[name])]

\* pipeline.py:209: shutil.move(old_file, new_file)
shutil_move(src, dst, name) == [src |-> Without(src, name), dst |-> With(dst, name, src[name])]

\* the originals deleted before the merged file is written
delete_originals_before_merge(ids, files, written) ==
    [id \in DOMAIN files \ Range(ids) |-> files[id]]

\* pipeline.py:218-226: the deletion loop comes after merge_html_file has
\* returned; an exception in merge_html_file leaves step 3 before it
delete_originals(ids, files, written) ==
    IF written THEN [id \in DOMAIN files \ Range(ids) |-> files[id]] ELSE files

\* how merge_html_file can raise: reading a member that exists, opening the
\* output file, or writing it once it is open
MergeFailures == {"read", "open", "write"}

InitMerge ==
    /\ ScrapeIdle
    /\ MainIdle
    /\ TranslateIdle
    /\ NameIdle
    /\ LedgerIdle
    /\ PublishIdle
    /\ ImageIdle
    /\ GroupIdle
    /\ data \in GroupsFiles
    /\ raw_dir \in RawDirs
    /\ merged_dir = EmptyFn
    /\ pcM = "step3"
    /\ idxM = 1
    /\ nMerged = 0
    /\ rawAtStart = raw_dir
    /\ mergedOf = EmptyFn

\* pipeline.py:192-196: the groups file is loaded
StartMerge ==
    /\ pcM = "step3"
    /\ pcM' = "loop"
    /\ idxM' = 1
    /\ UNCHANGED <<data, raw_dir, merged_dir, nMerged, rawAtStart, mergedOf>>
    /\ UNCHANGED notMerge

\* pipeline.py:200-212 and 230-232: a single article is moved, the
\* thumbnail tag is put before its content
MoveSingle ==
    /\ pcM = "loop"
    /\ idxM <= Len(data)
    /\ Len(data[idxM].id) = 1
    /\ data[idxM].id[1] \in DOMAIN raw_dir
    /\ LET old_file == data[idxM].id[1]
           moved == shutil_move(raw_dir, merged_dir, old_file)
       IN /\ raw_dir' = moved.src
          /\ merged_dir' = With(moved.dst, old_file,
                                append_thumbnail_to_html(moved.dst[old_file],
                                                         data[idxM].thumbnail))
    /\ idxM' = idxM + 1
    /\ UNCHANGED <<data, pcM, nMerged, rawAtStart, mergedOf>>
    /\ UNCHANGED notMerge

\* pipeline.py:204-207: "File not found, skipping"
SkipSingle ==
    /\ pcM = "loop"
    /\ idxM <= Len(data)
    /\ Len(data[idxM].id) = 1
    /\ data[idxM].id[1] \notin DOMAIN raw_dir
    /\ idxM' = idxM + 1
    /\ UNCHANGED <<data, raw_dir, merged_dir, pcM, nMerged, rawAtStart, mergedOf>>
    /\ UNCHANGED notMerge

\* pipeline.py:213-232: the members are merged, the originals deleted, the
\* thumbnail tag is put before the merged content
MergeGroup ==
    /\ pcM = "loop"
    /\ idxM <= Len(data)
    /\ Len(data[idxM].id) # 1
    /\ LET new_file == "merged" \o ToString(nMerged + 1)
           final_html == merge_html_file(data[idxM].id, raw_dir, data[idxM].title)
       IN /\ merged_dir' = With(merged_dir, new_file,
                                append_thumbnail_to_html(final_html, data[idxM].thumbnail))
          /\ mergedOf' = With(mergedOf, idxM, new_file)
    /\ raw_dir' = delete_originals(data[idxM].id, raw_dir, TRUE)
    /\ nMerged' = nMerged + 1
    /\ idxM' = idxM + 1
    /\ UNCHANGED <<data, pcM, rawAtStart>>
    /\ UNCHANGED notMerge

\* pipeline.py:218-219 with file.py:47-69: merge_html_file raises and step 3
\* ends with the exception; a failed write leaves the opened file behind
MergeGroupFails(outcome) ==
    /\ pcM = "loop"
    /\ idxM <= Len(data)
    /\ Len(data[idxM].id) # 1
    /\ outcome = "read" => \E id \in Range(data[idxM].id) : id \in DOMAIN raw_dir
    /\ IF outcome = "write"
       THEN /\ merged_dir' = With(merged_dir, "merged" \o ToString(nMerged + 1), <<>>)
            /\ nMerged' = nMerged + 1
       ELSE UNCHANGED <<merged_dir, nMerged>>
    /\ raw_dir' = delete_originals(data[idxM].id, raw_dir, FALSE)
    /\ pcM' = "crashed"
    /\ UNCHANGED <<data, idxM, rawAtStart, mergedOf>>
    /\ UNCHANGED notMerge

\* step_3_merge_articles returns
EndMerge ==
    /\ pcM = "loop"
    /\ idxM > Len(data)
    /\ pcM' = "done"
    /\ UNCHANGED <<data, raw_dir, merged_dir, idxM, nMerged, rawAtStart, mergedOf>>
    /\ UNCHANGED notMerge

NextMerge ==
    \/ StartMerge
    \/ MoveSingle
    \/ SkipSingle
    \/ MergeGroup
    \/ \E outcome \in MergeFailures : MergeGroupFails(outcome)
    \/ EndMerge

SpecMerge == InitMerge /\ [][NextMerge]_vars

\* the item g of data is the first that names the article id
FirstMention(g, id) == \A h \in 1..(g - 1) : id \notin Range(data[h].id)

\* a heading tag one level down, level 6 staying where it is
DemotedTag(t) ==
    IF t.k \in {"open", "close"} /\ t.level <= 5 THEN [t EXCEPT !.level = t.level + 1]
    ELSE t

\* C9: the file merged for a multi-member group holds, in one <article>, an
\* <h1> with the group title followed by the member bodies with every
\* heading tag of level 1 to 5, opening (with or without attributes) and
\* closing, one level down and level 6 unchanged; the title is its only <h1>.
C9_HeadingsDemotedOnce ==
    \A g \in DOMAIN mergedOf :
        (\A m \in DOMAIN data[g].id :
             FirstMention(g, data[g].id[m]) /\ data[g].id[m] \in DOMAIN rawAtStart) =>
            LET body == read_members(data[g].id, 1, rawAtStart)
                file == merged_dir[mergedOf[g]]
            IN /\ Len(file) = Len(body) + 6
               /\ file[2].k = "article"
               /\ file[3] = HOpen(1, FALSE)
               /\ file[4].text = data[g].title
               /\ file[5] = HClose(1)
               /\ \A n \in DOMAIN body : file[5 + n] = DemotedTag(body[n])
               /\ file[Len(file)].k = "/article"
               /\ \A n \in DOMAIN file : (file[n].k = "open" /\ file[n].level = 1) => n = 3

\* C10: a singleton group whose source file exists when the loop reaches it
\* leaves, in the merged directory, the thumbnail tag line followed by the
\* unchanged content of the source file, and the source file is gone.
C10_SingletonMovedUnchanged ==
    \A g \in 1..(idxM - 1) :
        ( /\ g \in DOMAIN data
          /\ Len(data[g].id) = 1
          /\ data[g].id[1] \in DOMAIN rawAtStart
          /\ FirstMention(g, data[g].id[1]) ) =>
            /\ data[g].id[1] \in DOMAIN merged_dir
            /\ merged_dir[data[g].id[1]] =
                   <<HtmlTag("img", 0, TRUE, data[g].thumbnail)>> \o rawAtStart[data[g].id[1]]
            /\ data[g].id[1] \notin DOMAIN raw_dir

\* C10 witness: step 3 is over and moved the file of a singleton group whose
\* content holds a heading of level 1
C10_Witness ==
    /\ pcM = "done"
    /\ \E g \in DOMAIN data :
           /\ Len(data[g].id) = 1
           /\ data[g].id[1] \in DOMAIN rawAtStart
           /\ FirstMention(g, data[g].id[1])
           /\ rawAtStart[data[g].id[1]][1].level = 1
           /\ data[g].id[1] \in DOMAIN merged_dir

\* a member of group i that an earlier group of the file has not named
Untouched(i, id) == \A j \in 1..(i - 1) : id \notin Range(data[j].id)

\* C19: when merge_html_file fails for a multi-member group (a member cannot
\* be read, the merged file cannot be written), every member file of that
\* group that was there is still there with its content: none was deleted.
C19_OriginalsKeptOnFailure ==
    pcM = "crashed" =>
        \A id \in Range(data[idxM].id) :
            (id \in DOMAIN rawAtStart /\ Untouched(idxM, id)) =>
                (id \in DOMAIN raw_dir /\ raw_dir[id] = rawAtStart[id])

\* C19 witness: the merge of a group failed while a member file of it existed
C19_Witness ==
    /\ pcM = "crashed"
    /\ \E id \in Range(data[idxM].id) : id \in DOMAIN rawAtStart /\ Untouched(idxM, id)

\* C20: a multi-member group none of whose member files exists leaves no
\* file in the merged directory, and a group with some member file present
\* is merged without stopping the step.
C20_NoFileForEmptyGroup ==
    \A i \in 1..(idxM - 1) :
        Len(data[i].id) # 1 =>
            IF \A id \in Range(data[i].id) : id \notin DOMAIN rawAtStart
            THEN i \notin DOMAIN mergedOf
            ELSE (\E id \in Range(data[i].id) : id \in DOMAIN rawAtStart /\ Untouched(i, id))
                     => i \in DOMAIN mergedOf

(***************************************************************************)
(* The ledger on its own: log_id and get_all_ids called in any order on a  *)
(* file that starts missing, with lines that log_id did not write          *)
(* appended to it from outside.                                            *)
(***************************************************************************)
LedgerIds == {"a", "b"}

\* the lines of the file, none when it is missing
Lines(file) == IF file = None THEN <<>> ELSE file[1]

InitLedger ==
    /\ ScrapeIdle
    /\ MainIdle
    /\ TranslateIdle
    /\ NameIdle
    /\ PublishIdle
    /\ ImageIdle
    /\ GroupIdle
    /\ MergeIdle
    /\ log_file = None
    /\ log_clock = 0
    /\ recorded = <<>>
    /\ corrupted = FALSE
    /\ all_ids = <<>>
    /\ read_outcome = "none"

\* log.py:8-13: open(log_file, 'a') creates the file when it is missing
CallLogId(id) ==
    /\ Len(Lines(log_file)) < MaxLines
    /\ log_file' = Some(log_id(Lines(log_file), log_clock, id))
    /\ recorded' = Append(recorded, LedgerLine(log_clock, id))
    /\ log_clock' = log_clock + 1
    /\ all_ids' = <<>>
    /\ read_outcome' = "none"
    /\ UNCHANGED corrupted
    /\ UNCHANGED notLedger

\* a line reaches the file that log_id did not write
AppendCorruptLine(kind) ==
    /\ Len(Lines(log_file)) < MaxLines
    /\ log_file' = Some(Append(Lines(log_file), CorruptLine(kind)))
    /\ corrupted' = TRUE
    /\ all_ids' = <<>>
    /\ read_outcome' = "none"
    /\ UNCHANGED <<log_clock, recorded>>
    /\ UNCHANGED notLedger

\* the file is created empty (open(log_file, 'w').close())
CreateEmpty ==
    /\ log_file = None
    /\ log_file' = Some(<<>>)
    /\ all_ids' = <<>>
    /\ read_outcome' = "none"
    /\ UNCHANGED <<log_clock, recorded, corrupted>>
    /\ UNCHANGED notLedger

\* log.py:16-27
CallGetAllIds ==
    /\ read_outcome = "none"
    /\ IF log_file # None /\ get_all_ids_raises(Lines(log_file))
       THEN /\ read_outcome' = "raised"
            /\ UNCHANGED all_ids
       ELSE /\ read_outcome' = "returned"
            /\ all_ids' = get_all_ids(Lines(log_file))
    /\ UNCHANGED <<log_file, log_clock, recorded, corrupted>>
    /\ UNCHANGED notLedger

NextLedger ==
    \/ \E id \in LedgerIds : CallLogId(id)
    \/ \E kind \in CorruptKinds : AppendCorruptLine(kind)
    \/ CreateEmpty
    \/ CallGetAllIds

SpecLedger == InitLedger /\ [][NextLedger]_vars

RECURSIVE ValidIds(_)
\* the ids of the lines that are {timestamp, id} records, in file order
ValidIds(lines) ==
    IF lines = <<>> THEN <<>>
    ELSE (IF Head(lines).kind = "entry" THEN <<Head(lines).id>> ELSE <<>>)
         \o ValidIds(Tail(lines))

\* C13: whatever the ledger holds, get_all_ids does not raise: it skips each
\* line that is not a {timestamp, id} record (not JSON, JSON that is not an
\* object, an object without id) and returns the id of every valid line.
C13_CorruptLinesSkipped ==
    /\ read_outcome # "raised"
    /\ read_outcome = "returned" => all_ids = ValidIds(Lines(log_file))

\* C14: on a file that started missing and that only log_id wrote to,
\* get_all_ids returns the recorded ids in the order recorded ([] for a
\* missing or empty file), and the file holds one line per log_id call, the
\* earlier lines as they were written.
C14_LedgerRoundTrip ==
    ~ corrupted =>
        /\ Lines(log_file) = recorded
        /\ read_outcome # "raised"
        /\ read_outcome = "returned" =>
               /\ Len(all_ids) = Len(recorded)
               /\ \A i \in DOMAIN recorded : all_ids[i] = recorded[i].id

\* C14 witness: two different ids were recorded and read back
C14_Witness ==
    /\ ~ corrupted
    /\ read_outcome = "returned"
    /\ Len(recorded) >= 2
    /\ recorded[1].id # recorded[2].id
    /\ all_ids[1] = recorded[1].id

(***************************************************************************)
(* The file name of an inline image: image.py:170-191 and 48-49. A name is *)
(* the length of its stem and the length of its extension, dot included    *)
(* (0 when it has none): os.path.splitext of the basename of the URL path. *)
(***************************************************************************)
max_filename_length == 200

Name(stem, ext) == [stem |-> stem, ext |-> ext]
NameLen(name) == name.stem + name.ext

\* names around the threshold, a short one, a long one; no extension, a
\* short one, '.jpg', '.webp', and one as long as the threshold allows a name
StemLens == {1, 250} \cup ((max_filename_length - 10)..(max_filename_length + 1))
ExtLens == {0, 2, 4, 5, 10, max_filename_length + 1}
UrlNames == { Name(st, e) : st \in StemLens, e \in ExtLens }

\* image.py:176-177: '.jpg' is added when the name has no extension
add_default_extension(name) == IF name.ext = 0 THEN Name(name.stem, 4) ELSE name

\* image.py:183-187: f"img_{url_hash}{file_ext}" with 8 characters of hash
hashed_filename(name) == Name(4 + 8, IF name.ext = 0 THEN 4 ELSE name.ext)

\* image.py:172-189: the name the download is written under
safe_name(name) ==
    LET original_filename == add_default_extension(name)
    IN IF NameLen(original_filename) > max_filename_length
       THEN hashed_filename(original_filename)
       ELSE original_filename

\* image.py:48-49: source_path.with_suffix('.webp')
webp_name(name) == Name(name.stem, 5)

InitName ==
    /\ ScrapeIdle
    /\ MainIdle
    /\ TranslateIdle
    /\ PublishIdle
    /\ ImageIdle
    /\ GroupIdle
    /\ MergeIdle
    /\ LedgerIdle
    /\ url_name \in UrlNames
    /\ pcF = "url"
    /\ stored_names = {}

\* image.py:170-208: the download is written, then its WebP conversion
StoreImage ==
    /\ pcF = "url"
    /\ stored_names' = { safe_name(url_name), webp_name(safe_name(url_name)) }
    /\ pcF' = "stored"
    /\ UNCHANGED url_name
    /\ UNCHANGED notName

\* image.py:199-202: the download is written, convert_to_webp fails
StoreDownloadOnly ==
    /\ pcF = "url"
    /\ stored_names' = { safe_name(url_name) }
    /\ pcF' = "stored"
    /\ UNCHANGED url_name
    /\ UNCHANGED notName

NextName ==
    \/ StoreImage
    \/ StoreDownloadOnly

SpecName == InitName /\ [][NextName]_vars

\* C15: every name the inline flow stores an image under is at most 200
\* characters long; a name derived from the URL that is longer is replaced
\* by 'img_', 8 hash characters and the original extension.
C15_StoredNameWithinThreshold ==
    pcF = "stored" =>
        \A name \in stored_names : NameLen(name) <= max_filename_length

(***************************************************************************)
(* Translation stage: core/gemini.py translate_article_list. The AI        *)
(* answers one article with an error or with a result that holds a slug;   *)
(* sanitize_slug is imported from utils.file, which does not define it:    *)
(* it is taken from the specification, "slug must be reduced to a          *)
(* URL-safe lowercase hyphenated token before being used as a filename".   *)
(***************************************************************************)
\* the slugs an answer holds; '' is a missing slug
AnswerSlugs == {"", "foo-bar", "Foo Bar", "x"}

sanitize_slug(slug) == IF slug = "Foo Bar" THEN "foo-bar" ELSE slug

\* os.listdir: the i-th Markdown file of the input folder
MarkdownFile(i) == "m" \o ToString(i) \o ".md"

InitTranslate ==
    /\ ScrapeIdle
    /\ MainIdle
    /\ PublishIdle
    /\ ImageIdle
    /\ GroupIdle
    /\ MergeIdle
    /\ LedgerIdle
    /\ NameIdle
    /\ \E n \in 1..MaxArticles : markdown_files = [i \in 1..n |-> MarkdownFile(i)]
    /\ idxT = 1
    /\ pcT = "step5"
    /\ translated_dir = EmptyFn
    /\ success_count = 0
    /\ error_count = 0
    /\ translated = {}
    /\ attemptT = 0
    /\ retry_delayT = 0
    /\ sleepsT = <<>>
    /\ resultT = "none"

\* gemini.py:372-382
StartTranslate ==
    /\ pcT = "step5"
    /\ pcT' = "loop"
    /\ idxT' = 1
    /\ UNCHANGED <<markdown_files, translated_dir, success_count, error_count, translated,
                   attemptT, retry_delayT, sleepsT, resultT>>
    /\ UNCHANGED notTranslate

\* gemini.py:383-390 with translate_article 239-260: the file is read, the
\* retry loop is entered
StartRequest ==
    /\ pcT = "loop"
    /\ idxT <= Len(markdown_files)
    /\ attemptT' = 0
    /\ retry_delayT' = initial_retry_delay
    /\ sleepsT' = <<>>
    /\ resultT' = "none"
    /\ pcT' = "request"
    /\ UNCHANGED <<markdown_files, idxT, translated_dir, success_count, error_count,
                   translated>>
    /\ UNCHANGED notTranslate

\* gemini.py:269-279: generate_content raises; after the last attempt
\* translate_article returns {"error": ...} and the loop counts an error
TranslateAttemptRaises ==
    /\ pcT = "request"
    /\ IF attemptT < max_retries - 1
       THEN /\ sleepsT' = Append(sleepsT, retry_delayT)
            /\ retry_delayT' = next_retry_delay(retry_delayT)
            /\ attemptT' = attemptT + 1
            /\ UNCHANGED <<pcT, idxT, error_count, resultT>>
       ELSE /\ resultT' = "raised"
            /\ error_count' = error_count + 1
            /\ idxT' = idxT + 1
            /\ pcT' = "loop"
            /\ UNCHANGED <<sleepsT, retry_delayT, attemptT>>
    /\ UNCHANGED <<markdown_files, translated_dir, success_count, translated>>
    /\ UNCHANGED notTranslate

\* gemini.py:281-283 and 392-413: the call returned, but without text, with
\* text that is not JSON, or with JSON that is not an object
TranslationFails ==
    /\ pcT = "request"
    /\ resultT' = "error"
    /\ error_count' = error_count + 1
    /\ idxT' = idxT + 1
    /\ pcT' = "loop"
    /\ UNCHANGED <<markdown_files, translated_dir, success_count, translated, attemptT,
                   retry_delayT, sleepsT>>
    /\ UNCHANGED notTranslate

\* gemini.py:414-463: the fields are read; a missing one is an error, else
\* <slug>.md is opened with 'w' and written
TranslationAnswers(answer_slug, use) ==
    /\ pcT = "request"
    /\ LET slug == sanitize_slug(answer_slug)
       IN IF slug = ""
          THEN /\ error_count' = error_count + 1
               /\ UNCHANGED <<translated_dir, success_count, translated>>
          ELSE /\ translated_dir' =
                      With(translated_dir, slug,
                           [source |-> markdown_files[idxT],
                            text |-> yaml_header(<<>>, use, 0)])
               /\ success_count' = success_count + 1
               /\ translated' = translated \cup {markdown_files[idxT]}
               /\ UNCHANGED error_count
    /\ resultT' = "answer"
    /\ idxT' = idxT + 1
    /\ pcT' = "loop"
    /\ UNCHANGED <<markdown_files, attemptT, retry_delayT, sleepsT>>
    /\ UNCHANGED notTranslate

\* gemini.py:465-470
EndTranslate ==
    /\ pcT = "loop"
    /\ idxT > Len(markdown_files)
    /\ pcT' = "done"
    /\ UNCHANGED <<markdown_files, idxT, translated_dir, success_count, error_count,
                   translated, attemptT, retry_delayT, sleepsT, resultT>>
    /\ UNCHANGED notTranslate

NextTranslate ==
    \/ StartTranslate
    \/ StartRequest
    \/ TranslateAttemptRaises
    \/ TranslationFails
    \/ \E answer_slug \in AnswerSlugs, use \in {0, 1} : TranslationAnswers(answer_slug, use)
    \/ EndTranslate

SpecTranslate == InitTranslate /\ [][NextTranslate]_vars

\* C16: in one translation run every article translated with success is a
\* file of its own in the output folder: no output was overwritten, and
\* there are as many output files as successful translations.
C16_OneFilePerTranslation ==
    /\ Cardinality(DOMAIN translated_dir) = success_count
    /\ \A file \in translated :
           \E slug \in DOMAIN translated_dir : translated_dir[slug].source = file

(***************************************************************************)
(* Command line entry point: main.py main and run_specific_step, and       *)
(* pipeline.py NewsPipeline.__init__ and run_full_pipeline. A step is an   *)
(* outcome drawn from what its code can return or raise.                   *)
(***************************************************************************)
\* main.py:31-37: the choices of --step; "" is no --step
StepChoices == {"scrape", "group", "merge", "convert", "translate", "images",
                "obsidian", "copy", "deploy", "clean", "cleanup"}

Args == [step : StepChoices \cup {""}, skip_obsidian : BOOLEAN,
         input : BOOLEAN, output : BOOLEAN]

CompletedMessage == "Application completed successfully"
FailedMessage == "Application failed"
PipelineCompletedMessage == "Full pipeline completed successfully"

InitMain ==
    /\ ScrapeIdle
    /\ PublishIdle
    /\ ImageIdle
    /\ GroupIdle
    /\ MergeIdle
    /\ LedgerIdle
    /\ NameIdle
    /\ TranslateIdle
    /\ args \in Args
    /\ config_valid \in BOOLEAN
    /\ pcA = "main"
    /\ pipeline_skip_obsidian = None
    /\ executed = <<>>
    /\ logged = {}
    /\ exit_status = None
    /\ failure = ""

\* main.py:160-162: except Exception -> log, sys.exit(1)
ExitFailed(cause) ==
    /\ logged' = logged \cup {FailedMessage}
    /\ exit_status' = Some(1)
    /\ failure' = cause
    /\ pcA' = "exited"

\* main.py:155 and the end of main: the status of a process that returns
ExitCompleted(messages, cause) ==
    /\ logged' = logged \cup messages \cup {CompletedMessage}
    /\ exit_status' = Some(0)
    /\ failure' = cause
    /\ pcA' = "exited"

\* main.py:142-153 with pipeline.py:37-41 and config.py:74-86
NewsPipelineInit ==
    /\ pcA = "main"
    /\ IF ~config_valid
       THEN /\ ExitFailed("config")
            /\ UNCHANGED <<pipeline_skip_obsidian, executed>>
       ELSE /\ pipeline_skip_obsidian' = Some(args.skip_obsidian)
            /\ pcA' = IF args.step = "" THEN "step1" ELSE "specific"
            /\ UNCHANGED <<executed, logged, exit_status, failure>>
    /\ UNCHANGED <<args, config_valid>>
    /\ UNCHANGED notMain

\* main.py:65-126: the step a --step value runs; 9 and 10 are the methods
\* step_9_cleanup_nextjs and step_10_deploy, which NewsPipeline does not have
StepNumber(step) ==
    CASE step = "clean" -> 0
      [] step = "scrape" -> 1
      [] step = "group" -> 2
      [] step = "merge" -> 3
      [] step = "convert" -> 4
      [] step = "translate" -> 5
      [] step = "images" -> 6
      [] step = "obsidian" -> 7
      [] step = "copy" -> 8
      [] step = "cleanup" -> 9
      [] step = "deploy" -> 10

run_specific_step(raises) ==
    /\ pcA = "specific"
    /\ IF \/ args.step = "group" /\ ~args.input
          \/ args.step = "merge" /\ ~(args.input /\ args.output)
       THEN /\ ExitCompleted({}, "")
            /\ UNCHANGED executed
       ELSE IF args.step \in {"cleanup", "deploy"}
       THEN /\ ExitFailed("attribute")
            /\ UNCHANGED executed
       ELSE /\ executed' = Append(executed, StepNumber(args.step))
            /\ IF raises THEN ExitFailed(args.step) ELSE ExitCompleted({}, "")
    /\ UNCHANGED <<args, config_valid, pipeline_skip_obsidian>>
    /\ UNCHANGED notMain

\* pipeline.py:48-52: step 1 raises ScrapingError, finds nothing new, or
\* gives the file of fetched articles
Step1ScrapeNewsFeed(outcome) ==
    /\ pcA = "step1"
    /\ executed' = Append(executed, 1)
    /\ CASE outcome = "raises" -> ExitFailed("scrape")
         [] outcome = "none" -> ExitCompleted({}, "")
         [] outcome = "file" ->
                /\ pcA' = "step2"
                /\ UNCHANGED <<logged, exit_status, failure>>
    /\ UNCHANGED <<args, config_valid, pipeline_skip_obsidian>>
    /\ UNCHANGED notMain

\* pipeline.py:54-58: step 2 gives None ("Failed to group articles", return),
\* raises, or gives the groups file
Step2GroupArticles(outcome) ==
    /\ pcA = "step2"
    /\ executed' = Append(executed, 2)
    /\ CASE outcome = "raises" -> ExitFailed("group raises")
         [] outcome = "none" -> ExitCompleted({"Failed to group articles"}, "group")
         [] outcome = "file" ->
                /\ pcA' = "step3"
                /\ UNCHANGED <<logged, exit_status, failure>>
    /\ UNCHANGED <<args, config_valid, pipeline_skip_obsidian>>
    /\ UNCHANGED notMain

\* a step of run_full_pipeline that returns nothing: it ends or it raises
StepRuns(n, raises) ==
    /\ pcA = "step" \o ToString(n)
    /\ executed' = Append(executed, n)
    /\ IF raises
       THEN ExitFailed("step" \o ToString(n))
       ELSE /\ pcA' = "step" \o ToString(n + 1)
            /\ UNCHANGED <<logged, exit_status, failure>>
    /\ UNCHANGED <<args, config_valid, pipeline_skip_obsidian>>
    /\ UNCHANGED notMain

\* pipeline.py:60-61
Step3MergeArticles == \E raises \in BOOLEAN : StepRuns(3, raises)
\* pipeline.py:63-67
Step4ConvertHtmlToMarkdown == \E raises \in BOOLEAN : StepRuns(4, raises)
\* pipeline.py:69-73
Step5TranslateMarkdown == \E raises \in BOOLEAN : StepRuns(5, raises)
\* pipeline.py:75-76
Step6DownloadImages == \E raises \in BOOLEAN : StepRuns(6, raises)
\* pipeline.py:78-79: called whatever pipeline.skip_obsidian holds; it raises
\* when the application closes with a non-zero status
Step7OpenObsidian == \E raises \in BOOLEAN : StepRuns(7, raises)
\* pipeline.py:81-82
Step8CopyToNextjs == \E raises \in BOOLEAN : StepRuns(8, raises)

\* pipeline.py:84-87 with step_9_deploy 291-301: a failed build is logged
\* and the step returns; git_push_next_app may raise
Step9Deploy(build_success, push_raises) ==
    /\ pcA = "step9"
    /\ executed' = Append(executed, 9)
    /\ IF ~build_success
       THEN ExitCompleted({"Failed to build the Next.js app", PipelineCompletedMessage},
                          "build")
       ELSE IF push_raises
       THEN ExitFailed("push")
       ELSE ExitCompleted({"Deployment completed successfully", PipelineCompletedMessage},
                          "")
    /\ UNCHANGED <<args, config_valid, pipeline_skip_obsidian>>
    /\ UNCHANGED notMain

NextMain ==
    \/ NewsPipelineInit
    \/ \E raises \in BOOLEAN : run_specific_step(raises)
    \/ \E outcome \in {"raises", "none", "file"} : Step1ScrapeNewsFeed(outcome)
    \/ \E outcome \in {"raises", "none", "file"} : Step2GroupArticles(outcome)
    \/ Step3MergeArticles
    \/ Step4ConvertHtmlToMarkdown
    \/ Step5TranslateMarkdown
    \/ Step6DownloadImages
    \/ Step7OpenObsidian
    \/ Step8CopyToNextjs
    \/ \E build_success \in BOOLEAN, push_raises \in BOOLEAN :
           Step9Deploy(build_success, push_raises)

SpecMain == InitMain /\ [][NextMain]_vars

\* C17: a run of the full pipeline that a failure stopped before its
\* remaining stages ran (missing configuration, a scraping error, a grouping
\* step that gave nothing, a failed build) ends with a non-zero status and
\* never logs that it completed successfully.
C17_FailureExitsNonZero ==
    (args.step = "" /\ pcA = "exited" /\ failure # "") =>
        /\ exit_status = Some(1)
        /\ CompletedMessage \notin logged
        /\ PipelineCompletedMessage \notin logged

\* C18: started with --skip-obsidian, a run of the full pipeline never enters
\* step 7, and the steps it does enter are in the usual order.
C18_SkipObsidianSkipsStep7 ==
    (args.step = "" /\ args.skip_obsidian) =>
        /\ \A i \in 1..Len(executed) : executed[i] # 7
        /\ \A i \in 1..(Len(executed) - 1) : executed[i] < executed[i + 1]

(***************************************************************************)
(* The two AI requests side by side: the grouping call of one batch of one *)
(* article and the translation of one article, each with its retry loop.   *)
(***************************************************************************)
InitAI ==
    /\ ScrapeIdle
    /\ MainIdle
    /\ NameIdle
    /\ LedgerIdle
    /\ PublishIdle
    /\ ImageIdle
    /\ MergeIdle
    /\ client \in BOOLEAN
    /\ raw_html \in BatchesOfLen(1)
    /\ pcG = "step2"
    /\ attempt = 0
    /\ retry_delay = 0
    /\ sleeps = <<>>
    /\ response = "none"
    /\ groups_json = None
    /\ groups_file = None
    /\ result2 = "none"
    /\ pipeline = "step2"
    /\ markdown_files = <<MarkdownFile(1)>>
    /\ idxT = 1
    /\ pcT = "step5"
    /\ translated_dir = EmptyFn
    /\ success_count = 0
    /\ error_count = 0
    /\ translated = {}
    /\ attemptT = 0
    /\ retry_delayT = 0
    /\ sleepsT = <<>>
    /\ resultT = "none"

NextAI == NextGroup \/ NextTranslate

SpecAI == InitAI /\ [][NextAI]_vars

\* the waits of a request that is at its attempt number att + 1
Backoff(att, waits) ==
    /\ att <= 2
    /\ Len(waits) = att
    /\ Len(waits) >= 1 => waits[1] = 5
    /\ Len(waits) >= 2 => waits[2] = 10

\* C26: an AI request, the grouping call or the translation of an article,
\* is attempted at most 3 times; it waits 5 seconds before the 2nd attempt
\* and 10 before the 3rd; once a call has returned there is no further
\* attempt; after the 3rd failure there is no wait and no attempt, and the
\* request is reported as failed.
C26_ThreeAttemptsWithDoublingWait ==
    /\ Backoff(attempt, sleeps)
    /\ Backoff(attemptT, sleepsT)
    /\ response # "none" => pcG # "attempt"
    /\ resultT # "none" => pcT # "request"
    /\ response = "raised" => (sleeps = <<5, 10>> /\ groups_json = None)
    /\ resultT = "raised" => (sleepsT = <<5, 10>> /\ error_count >= 1 /\ translated = {})

\* C26 witness: the grouping call and the translation call both failed three
\* times
C26_Witness ==
    /\ response = "raised" /\ sleeps = <<5, 10>>
    /\ resultT = "raised" /\ sleepsT = <<5, 10>>

====
